---- MODULE Spec2Model ----
(***************************************************************************)
(* Early-termination poll of the Snowman consensus engine                  *)
(* (snow/consensus/snowman/poll, earlyTermNoTraversalPoll): one poll made   *)
(* by an earlyTermNoTraversalFactory and driven by its owner through Vote, *)
(* Drop, Finished and Result, together with the per-reason metrics the     *)
(* factory shares with its polls; the construction of the factory against  *)
(* a metrics registry; and a second poll, for what the code promises about *)
(* two polls. Next to it, the tracker of the validators' last accepted     *)
(* blocks (snow/engine/common/tracker, accepted), called by one caller at  *)
(* a time and by concurrent goroutines under its read-write lock.          *)
(***************************************************************************)
EXTENDS Integers, Sequences, FiniteSets, Bags, TLC

\* ------------------------------------------------------------------------
\* Bounds of the model
\* ------------------------------------------------------------------------
\* largest multiplicity of one validator in the seeded validator bag
MaxMult == 2
\* largest alphaPreference / alphaConfidence / confidence threshold
MaxAlpha == 3
\* largest number of error-driven confidence thresholds
MaxConf == 2
\* longest time between the creation of a poll and a Finished() call
MaxElapsed == 1

\* validator ids and vote ids: opaque identifiers
NodeIDs == {"v1", "v2", "v3"}
IDs == {"A", "B"}

\* ------------------------------------------------------------------------
\* bag.Bag[T]: a map from the elements present to their positive counts
\* (a bag of the Bags module; EmptyBag is the zero value)
\* ------------------------------------------------------------------------
Count(b, elt) == CopiesIn(elt, b)

BagLen(b) == BagCardinality(b)

\* AddCount ignores a count that is not positive
AddCount(b, elt, count) ==
    IF count <= 0 THEN b ELSE b (+) [e \in {elt} |-> count]

Add(b, elt) == AddCount(b, elt, 1)

\* Remove drops every occurrence of elt
Remove(b, elt) == [e \in (DOMAIN b) \ {elt} |-> b[e]]

\* the frequency of the most frequent element, 0 for the empty bag
ModeFreq(b) ==
    IF DOMAIN b = {} THEN 0
    ELSE CHOOSE n \in {b[e] : e \in DOMAIN b} : \A e \in DOMAIN b : b[e] <= n

\* what Mode() may return: any of the most frequent elements with its
\* count, the zero value and 0 for the empty bag
Mode(b) ==
    IF DOMAIN b = {} THEN {[id |-> "", freq |-> 0]}
    ELSE {[id |-> e, freq |-> b[e]] :
             e \in {d \in DOMAIN b : \A o \in DOMAIN b : b[o] <= b[d]}}

\* every bag over S with counts up to max
BagsOver(S, max) == UNION {[T -> 1..max] : T \in SUBSET S}

\* the validator bags a poll is seeded with: validator ids are opaque and
\* interchangeable, so one bag stands for all its renamings (the one whose
\* counts do not increase from v1 to v3); a validator with count 0 is
\* unknown to the poll
SeededBags ==
    {b \in BagsOver(NodeIDs, MaxMult) :
        /\ Count(b, "v1") >= Count(b, "v2")
        /\ Count(b, "v2") >= Count(b, "v3")}

\* the seeded bags of up to MaxMult validators, counted with multiplicity
SmallSeeds == {b \in SeededBags : BagLen(b) <= MaxMult}

\* ------------------------------------------------------------------------
\* State
\* ------------------------------------------------------------------------
VARIABLES
    vdrs,      \* the validator bag handed to earlyTermNoTraversalFactory.New
    poll,      \* the earlyTermNoTraversalPoll
    metrics,   \* the earlyTermNoTraversalMetrics shared by the factory
    ret,       \* what the last finishedAndReason() call returned
    twin,      \* a second poll, with what its owner keeps next to it
    reg,       \* the prometheus.Registerer: the collector names it holds
    built,     \* what the last NewEarlyTermNoTraversalFactory call returned
    accepted,  \* the accepted tracker of snow/engine/common/tracker
    calls,     \* the calls the tracker has completed, oldest first
    goroutines \* the goroutines calling the tracker: where each one stands

vars == <<vdrs, poll, metrics, ret, twin, reg, built, accepted, calls, goroutines>>

\* a nil pointer or a nil error; an error is the chain of the errors it wraps
Nil == <<>>

\* the int reasons finishedAndReason returns
NotFinishedCase == 0
ExhaustedCase == 1
EarlyFailCase == 2
EarlyAlphaPrefCase == 3
EarlyAlphaConfCase == 4

\* ------------------------------------------------------------------------
\* earlyTermNoTraversalMetrics
\* ------------------------------------------------------------------------
errPollDurationVectorMetrics == "failed to register poll_duration vector metrics"
errPollCountVectorMetrics == "failed to register poll_count vector metrics"

\* the names of the two vector metrics
CollectorNames == {"poll_count", "poll_duration"}

\* reg.Register(collector): the registry rejects a name it already holds
Register(registry, name) ==
    IF name \in registry
    THEN [reg |-> registry, err |-> <<"duplicate metrics collector registration attempted">>]
    ELSE [reg |-> registry \cup {name}, err |-> Nil]

\* the four gauges and four counters the two vectors hand out, all at 0
earlyTermNoTraversalMetrics ==
    [durExhaustedPolls |-> 0, durEarlyFailPolls |-> 0,
     durEarlyAlphaPrefPolls |-> 0, durEarlyAlphaConfPolls |-> 0,
     countExhaustedPolls |-> 0, countEarlyFailPolls |-> 0,
     countEarlyAlphaPrefPolls |-> 0, countEarlyAlphaConfPolls |-> 0]

\* newEarlyTermNoTraversalMetrics that ignores the error of the second
\* registration
newEarlyTermNoTraversalMetrics_IgnoresDuration(registry) ==
    LET pollCountVec == Register(registry, "poll_count")
        durPollsVec == Register(pollCountVec.reg, "poll_duration")
    IN  IF pollCountVec.err # Nil
        THEN [reg |-> pollCountVec.reg, metrics |-> Nil,
              err |-> <<errPollCountVectorMetrics>> \o pollCountVec.err]
        ELSE [reg |-> durPollsVec.reg, metrics |-> <<earlyTermNoTraversalMetrics>>,
              err |-> Nil]

\* returns the registry after the call, the metrics (or nil) and the error
newEarlyTermNoTraversalMetrics(registry) ==
    LET pollCountVec == Register(registry, "poll_count")
        durPollsVec == Register(pollCountVec.reg, "poll_duration")
    IN  IF pollCountVec.err # Nil
        THEN [reg |-> pollCountVec.reg, metrics |-> Nil,
              err |-> <<errPollCountVectorMetrics>> \o pollCountVec.err]
        ELSE IF durPollsVec.err # Nil
        THEN [reg |-> durPollsVec.reg, metrics |-> Nil,
              err |-> <<errPollDurationVectorMetrics>> \o durPollsVec.err]
        ELSE [reg |-> durPollsVec.reg, metrics |-> <<earlyTermNoTraversalMetrics>>,
              err |-> Nil]

\* observeExhausted that sets the gauge to the duration
observeExhausted_Set(m, duration) ==
    [m EXCEPT !.durExhaustedPolls = duration,
              !.countExhaustedPolls = @ + 1]

observeExhausted(m, duration) ==
    [m EXCEPT !.durExhaustedPolls = @ + duration,
              !.countExhaustedPolls = @ + 1]

observeEarlyFail(m, duration) ==
    [m EXCEPT !.durEarlyFailPolls = @ + duration,
              !.countEarlyFailPolls = @ + 1]

observeEarlyAlphaPref(m, duration) ==
    [m EXCEPT !.durEarlyAlphaPrefPolls = @ + duration,
              !.countEarlyAlphaPrefPolls = @ + 1]

observeEarlyAlphaConf(m, duration) ==
    [m EXCEPT !.durEarlyAlphaConfPolls = @ + duration,
              !.countEarlyAlphaConfPolls = @ + 1]

\* time.Since(start) when the clock reads now
Since(start, now) == now - start

\* ------------------------------------------------------------------------
\* earlyTermNoTraversalFactory
\* ------------------------------------------------------------------------
\* the parameter constraints: 0 < alphaPreference <= alphaConfidence, and
\* confidences, when not empty, strictly ascending from at least
\* alphaPreference up to at least alphaConfidence
ValidParameters(alphaPreference, alphaConfidence, alphaConfidences) ==
    /\ 0 < alphaPreference
    /\ alphaPreference <= alphaConfidence
    /\ \A i \in 1..(Len(alphaConfidences) - 1) :
          alphaConfidences[i] < alphaConfidences[i + 1]
    /\ Len(alphaConfidences) > 0 =>
          /\ alphaConfidences[1] >= alphaPreference
          /\ alphaConfidences[Len(alphaConfidences)] >= alphaConfidence

ConfidenceLists == UNION {[1..n -> 1..MaxAlpha] : n \in 0..MaxConf}

\* the strictly ascending ones
AscendingLists ==
    {c \in ConfidenceLists : \A i \in 1..(Len(c) - 1) : c[i] < c[i + 1]}

\* returns the registry after the call, the factory (or nil) and the error
NewEarlyTermNoTraversalFactory(alphaPreference, alphaConfidence, registry, alphaConfidences) ==
    LET m == newEarlyTermNoTraversalMetrics(registry)
    IN  IF m.err # Nil
        THEN [reg |-> m.reg, factory |-> Nil, err |-> m.err]
        ELSE [reg |-> m.reg,
              factory |-> <<[alphaPreference |-> alphaPreference,
                             alphaConfidence |-> alphaConfidence,
                             alphaConfidences |-> alphaConfidences,
                             metrics |-> m.metrics[1]]>>,
              err |-> Nil]

\* factory.New(vdrs) when the clock reads now; the model measures time from
\* the creation of the poll
New(f, bagOfVdrs, now) ==
    [votes |-> EmptyBag,
     polled |-> bagOfVdrs,
     alphaPreference |-> f.alphaPreference,
     alphaConfidence |-> f.alphaConfidence,
     confidences |-> f.alphaConfidences,
     start |-> now,
     finished |-> FALSE]

\* ------------------------------------------------------------------------
\* earlyTermNoTraversalPoll
\* ------------------------------------------------------------------------
\* Vote that leaves the validator in polled
Vote_KeepsPolled(p, vdr, vote) ==
    LET count == Count(p.polled, vdr)
    IN  [p EXCEPT !.votes = AddCount(p.votes, vote, count)]

\* Vote that counts one vote whatever the validator's count in polled
Vote_AddsOne(p, vdr, vote) ==
    [p EXCEPT !.polled = Remove(p.polled, vdr),
              !.votes = Add(p.votes, vote)]

\* Vote that counts an outstanding validator once, not with its multiplicity
Vote_Single(p, vdr, vote) ==
    LET count == IF Count(p.polled, vdr) > 0 THEN 1 ELSE 0
    IN  [p EXCEPT !.polled = Remove(p.polled, vdr),
                  !.votes = AddCount(p.votes, vote, count)]

\* Vote that overwrites the tally of the vote instead of adding to it
Vote_Overwrites(p, vdr, vote) ==
    LET count == Count(p.polled, vdr)
    IN  [p EXCEPT !.polled = Remove(p.polled, vdr),
                  !.votes = AddCount(Remove(p.votes, vote), vote, count)]

Vote(p, vdr, vote) ==
    LET count == Count(p.polled, vdr)
    IN  [p EXCEPT !.polled = Remove(p.polled, vdr),
                  !.votes = AddCount(p.votes, vote, count)]

\* ------------------------------------------------------------------------
\* earlyTermNoTraversalPoll: Drop, finishedAndReason, Result
\* ------------------------------------------------------------------------
\* Drop that removes one occurrence of the validator, not all of them
Drop_One(p, vdr) ==
    [p EXCEPT !.polled = AddCount(Remove(p.polled, vdr), vdr,
                                  Count(p.polled, vdr) - 1)]

Drop(p, vdr) == [p EXCEPT !.polled = Remove(p.polled, vdr)]

\* shouldTerminateEarlyErrDriven without the loop over adjacent thresholds
shouldTerminateEarlyErrDriven_NoGap(p, m, freq, maxPossibleVotes, now) ==
    IF freq >= p.confidences[Len(p.confidences)]
    THEN [metrics |-> observeEarlyAlphaConf(m, Since(p.start, now)),
          fin |-> TRUE, reason |-> EarlyAlphaConfCase]
    ELSE IF freq < p.alphaPreference
    THEN [metrics |-> m, fin |-> FALSE, reason |-> NotFinishedCase]
    ELSE IF maxPossibleVotes < p.confidences[1]
    THEN [metrics |-> observeEarlyAlphaPref(m, Since(p.start, now)),
          fin |-> TRUE, reason |-> EarlyAlphaPrefCase]
    ELSE [metrics |-> m, fin |-> FALSE, reason |-> NotFinishedCase]

\* shouldTerminateEarlyErrDriven without the return on freq < alphaPreference
shouldTerminateEarlyErrDriven_NoPrefCheck(p, m, freq, maxPossibleVotes, now) ==
    IF freq >= p.confidences[Len(p.confidences)]
    THEN [metrics |-> observeEarlyAlphaConf(m, Since(p.start, now)),
          fin |-> TRUE, reason |-> EarlyAlphaConfCase]
    ELSE IF maxPossibleVotes < p.confidences[1]
    THEN [metrics |-> observeEarlyAlphaPref(m, Since(p.start, now)),
          fin |-> TRUE, reason |-> EarlyAlphaPrefCase]
    ELSE IF \E i \in 1..(Len(p.confidences) - 1) :
               /\ freq >= p.confidences[i]
               /\ maxPossibleVotes < p.confidences[i + 1]
    THEN [metrics |-> observeEarlyAlphaPref(m, Since(p.start, now)),
          fin |-> TRUE, reason |-> EarlyAlphaPrefCase]
    ELSE [metrics |-> m, fin |-> FALSE, reason |-> NotFinishedCase]

\* shouldTerminateEarlyErrDriven whose loop does not ask that freq has
\* reached the lower threshold of the gap
shouldTerminateEarlyErrDriven_AnyGap(p, m, freq, maxPossibleVotes, now) ==
    IF freq >= p.confidences[Len(p.confidences)]
    THEN [metrics |-> observeEarlyAlphaConf(m, Since(p.start, now)),
          fin |-> TRUE, reason |-> EarlyAlphaConfCase]
    ELSE IF freq < p.alphaPreference
    THEN [metrics |-> m, fin |-> FALSE, reason |-> NotFinishedCase]
    ELSE IF maxPossibleVotes < p.confidences[1]
    THEN [metrics |-> observeEarlyAlphaPref(m, Since(p.start, now)),
          fin |-> TRUE, reason |-> EarlyAlphaPrefCase]
    ELSE IF \E i \in 1..(Len(p.confidences) - 1) :
               maxPossibleVotes < p.confidences[i + 1]
    THEN [metrics |-> observeEarlyAlphaPref(m, Since(p.start, now)),
          fin |-> TRUE, reason |-> EarlyAlphaPrefCase]
    ELSE [metrics |-> m, fin |-> FALSE, reason |-> NotFinishedCase]

\* returns the metrics as observed, whether to terminate, and the reason
shouldTerminateEarlyErrDriven(p, m, freq, maxPossibleVotes, now) ==
    IF freq >= p.confidences[Len(p.confidences)]
    THEN [metrics |-> observeEarlyAlphaConf(m, Since(p.start, now)),
          fin |-> TRUE, reason |-> EarlyAlphaConfCase]
    ELSE IF freq < p.alphaPreference
    THEN [metrics |-> m, fin |-> FALSE, reason |-> NotFinishedCase]
    ELSE IF maxPossibleVotes < p.confidences[1]
    THEN [metrics |-> observeEarlyAlphaPref(m, Since(p.start, now)),
          fin |-> TRUE, reason |-> EarlyAlphaPrefCase]
    ELSE IF \E i \in 1..(Len(p.confidences) - 1) :
               /\ freq >= p.confidences[i]
               /\ maxPossibleVotes < p.confidences[i + 1]
    THEN [metrics |-> observeEarlyAlphaPref(m, Since(p.start, now)),
          fin |-> TRUE, reason |-> EarlyAlphaPrefCase]
    ELSE [metrics |-> m, fin |-> FALSE, reason |-> NotFinishedCase]

\* finishedAndReason without the early return on p.finished
finishedAndReason_NoLatchCheck(p, m, now) ==
    LET remaining == BagLen(p.polled)
        received == BagLen(p.votes)
        maxPossibleVotes == received + remaining
        freq == ModeFreq(p.votes)
        closed == [p EXCEPT !.finished = TRUE]
        errDriven == shouldTerminateEarlyErrDriven(p, m, freq, maxPossibleVotes, now)
    IN  IF FALSE
        THEN [poll |-> p, metrics |-> m,
              finished |-> TRUE, reason |-> NotFinishedCase]
        ELSE IF remaining = 0
        THEN [poll |-> closed,
              metrics |-> observeExhausted(m, Since(p.start, now)),
              finished |-> TRUE, reason |-> ExhaustedCase]
        ELSE IF maxPossibleVotes < p.alphaPreference
        THEN [poll |-> closed,
              metrics |-> observeEarlyFail(m, Since(p.start, now)),
              finished |-> TRUE, reason |-> EarlyFailCase]
        ELSE IF Len(p.confidences) > 0
        THEN IF errDriven.fin
             THEN [poll |-> closed, metrics |-> errDriven.metrics,
                   finished |-> TRUE, reason |-> errDriven.reason]
             ELSE [poll |-> p, metrics |-> errDriven.metrics,
                   finished |-> FALSE, reason |-> NotFinishedCase]
        ELSE IF freq >= p.alphaPreference /\ maxPossibleVotes < p.alphaConfidence
        THEN [poll |-> closed,
              metrics |-> observeEarlyAlphaPref(m, Since(p.start, now)),
              finished |-> TRUE, reason |-> EarlyAlphaPrefCase]
        ELSE IF freq >= p.alphaConfidence
        THEN [poll |-> closed,
              metrics |-> observeEarlyAlphaConf(m, Since(p.start, now)),
              finished |-> TRUE, reason |-> EarlyAlphaConfCase]
        ELSE [poll |-> p, metrics |-> m,
              finished |-> FALSE, reason |-> NotFinishedCase]

\* finishedAndReason that does not set p.finished in the error-driven branch
finishedAndReason_ErrDrivenOpen(p, m, now) ==
    LET remaining == BagLen(p.polled)
        received == BagLen(p.votes)
        maxPossibleVotes == received + remaining
        freq == ModeFreq(p.votes)
        closed == [p EXCEPT !.finished = TRUE]
        errDriven == shouldTerminateEarlyErrDriven(p, m, freq, maxPossibleVotes, now)
    IN  IF p.finished
        THEN [poll |-> p, metrics |-> m,
              finished |-> TRUE, reason |-> NotFinishedCase]
        ELSE IF remaining = 0
        THEN [poll |-> closed,
              metrics |-> observeExhausted(m, Since(p.start, now)),
              finished |-> TRUE, reason |-> ExhaustedCase]
        ELSE IF maxPossibleVotes < p.alphaPreference
        THEN [poll |-> closed,
              metrics |-> observeEarlyFail(m, Since(p.start, now)),
              finished |-> TRUE, reason |-> EarlyFailCase]
        ELSE IF Len(p.confidences) > 0
        THEN IF errDriven.fin
             THEN [poll |-> p, metrics |-> errDriven.metrics,
                   finished |-> TRUE, reason |-> errDriven.reason]
             ELSE [poll |-> p, metrics |-> errDriven.metrics,
                   finished |-> FALSE, reason |-> NotFinishedCase]
        ELSE IF freq >= p.alphaPreference /\ maxPossibleVotes < p.alphaConfidence
        THEN [poll |-> closed,
              metrics |-> observeEarlyAlphaPref(m, Since(p.start, now)),
              finished |-> TRUE, reason |-> EarlyAlphaPrefCase]
        ELSE IF freq >= p.alphaConfidence
        THEN [poll |-> closed,
              metrics |-> observeEarlyAlphaConf(m, Since(p.start, now)),
              finished |-> TRUE, reason |-> EarlyAlphaConfCase]
        ELSE [poll |-> p, metrics |-> m,
              finished |-> FALSE, reason |-> NotFinishedCase]

\* finishedAndReason with freq > alphaConfidence in case 4
finishedAndReason_StrictConf(p, m, now) ==
    LET remaining == BagLen(p.polled)
        received == BagLen(p.votes)
        maxPossibleVotes == received + remaining
        freq == ModeFreq(p.votes)
        closed == [p EXCEPT !.finished = TRUE]
        errDriven == shouldTerminateEarlyErrDriven(p, m, freq, maxPossibleVotes, now)
    IN  IF p.finished
        THEN [poll |-> p, metrics |-> m,
              finished |-> TRUE, reason |-> NotFinishedCase]
        ELSE IF remaining = 0
        THEN [poll |-> closed,
              metrics |-> observeExhausted(m, Since(p.start, now)),
              finished |-> TRUE, reason |-> ExhaustedCase]
        ELSE IF maxPossibleVotes < p.alphaPreference
        THEN [poll |-> closed,
              metrics |-> observeEarlyFail(m, Since(p.start, now)),
              finished |-> TRUE, reason |-> EarlyFailCase]
        ELSE IF Len(p.confidences) > 0
        THEN IF errDriven.fin
             THEN [poll |-> closed, metrics |-> errDriven.metrics,
                   finished |-> TRUE, reason |-> errDriven.reason]
             ELSE [poll |-> p, metrics |-> errDriven.metrics,
                   finished |-> FALSE, reason |-> NotFinishedCase]
        ELSE IF freq >= p.alphaPreference /\ maxPossibleVotes < p.alphaConfidence
        THEN [poll |-> closed,
              metrics |-> observeEarlyAlphaPref(m, Since(p.start, now)),
              finished |-> TRUE, reason |-> EarlyAlphaPrefCase]
        ELSE IF freq > p.alphaConfidence
        THEN [poll |-> closed,
              metrics |-> observeEarlyAlphaConf(m, Since(p.start, now)),
              finished |-> TRUE, reason |-> EarlyAlphaConfCase]
        ELSE [poll |-> p, metrics |-> m,
              finished |-> FALSE, reason |-> NotFinishedCase]

\* finishedAndReason that tests early fail before exhaustion
finishedAndReason_FailFirst(p, m, now) ==
    LET remaining == BagLen(p.polled)
        received == BagLen(p.votes)
        maxPossibleVotes == received + remaining
        freq == ModeFreq(p.votes)
        closed == [p EXCEPT !.finished = TRUE]
        errDriven == shouldTerminateEarlyErrDriven(p, m, freq, maxPossibleVotes, now)
    IN  IF p.finished
        THEN [poll |-> p, metrics |-> m,
              finished |-> TRUE, reason |-> NotFinishedCase]
        ELSE IF maxPossibleVotes < p.alphaPreference
        THEN [poll |-> closed,
              metrics |-> observeEarlyFail(m, Since(p.start, now)),
              finished |-> TRUE, reason |-> EarlyFailCase]
        ELSE IF remaining = 0
        THEN [poll |-> closed,
              metrics |-> observeExhausted(m, Since(p.start, now)),
              finished |-> TRUE, reason |-> ExhaustedCase]
        ELSE IF Len(p.confidences) > 0
        THEN IF errDriven.fin
             THEN [poll |-> closed, metrics |-> errDriven.metrics,
                   finished |-> TRUE, reason |-> errDriven.reason]
             ELSE [poll |-> p, metrics |-> errDriven.metrics,
                   finished |-> FALSE, reason |-> NotFinishedCase]
        ELSE IF freq >= p.alphaPreference /\ maxPossibleVotes < p.alphaConfidence
        THEN [poll |-> closed,
              metrics |-> observeEarlyAlphaPref(m, Since(p.start, now)),
              finished |-> TRUE, reason |-> EarlyAlphaPrefCase]
        ELSE IF freq >= p.alphaConfidence
        THEN [poll |-> closed,
              metrics |-> observeEarlyAlphaConf(m, Since(p.start, now)),
              finished |-> TRUE, reason |-> EarlyAlphaConfCase]
        ELSE [poll |-> p, metrics |-> m,
              finished |-> FALSE, reason |-> NotFinishedCase]

\* finishedAndReason that also gives up, as exhausted, once time has passed
\* since the start of the poll
finishedAndReason_Deadline(p, m, now) ==
    LET remaining == BagLen(p.polled)
        received == BagLen(p.votes)
        maxPossibleVotes == received + remaining
        freq == ModeFreq(p.votes)
        closed == [p EXCEPT !.finished = TRUE]
        errDriven == shouldTerminateEarlyErrDriven(p, m, freq, maxPossibleVotes, now)
    IN  IF p.finished
        THEN [poll |-> p, metrics |-> m,
              finished |-> TRUE, reason |-> NotFinishedCase]
        ELSE IF remaining = 0 \/ Since(p.start, now) > 0
        THEN [poll |-> closed,
              metrics |-> observeExhausted(m, Since(p.start, now)),
              finished |-> TRUE, reason |-> ExhaustedCase]
        ELSE IF maxPossibleVotes < p.alphaPreference
        THEN [poll |-> closed,
              metrics |-> observeEarlyFail(m, Since(p.start, now)),
              finished |-> TRUE, reason |-> EarlyFailCase]
        ELSE IF Len(p.confidences) > 0
        THEN IF errDriven.fin
             THEN [poll |-> closed, metrics |-> errDriven.metrics,
                   finished |-> TRUE, reason |-> errDriven.reason]
             ELSE [poll |-> p, metrics |-> errDriven.metrics,
                   finished |-> FALSE, reason |-> NotFinishedCase]
        ELSE IF freq >= p.alphaPreference /\ maxPossibleVotes < p.alphaConfidence
        THEN [poll |-> closed,
              metrics |-> observeEarlyAlphaPref(m, Since(p.start, now)),
              finished |-> TRUE, reason |-> EarlyAlphaPrefCase]
        ELSE IF freq >= p.alphaConfidence
        THEN [poll |-> closed,
              metrics |-> observeEarlyAlphaConf(m, Since(p.start, now)),
              finished |-> TRUE, reason |-> EarlyAlphaConfCase]
        ELSE [poll |-> p, metrics |-> m,
              finished |-> FALSE, reason |-> NotFinishedCase]

\* finishedAndReason that sets p.finished even when no rule applies
finishedAndReason_LatchOnFalse(p, m, now) ==
    LET remaining == BagLen(p.polled)
        received == BagLen(p.votes)
        maxPossibleVotes == received + remaining
        freq == ModeFreq(p.votes)
        closed == [p EXCEPT !.finished = TRUE]
        errDriven == shouldTerminateEarlyErrDriven(p, m, freq, maxPossibleVotes, now)
    IN  IF p.finished
        THEN [poll |-> p, metrics |-> m,
              finished |-> TRUE, reason |-> NotFinishedCase]
        ELSE IF remaining = 0
        THEN [poll |-> closed,
              metrics |-> observeExhausted(m, Since(p.start, now)),
              finished |-> TRUE, reason |-> ExhaustedCase]
        ELSE IF maxPossibleVotes < p.alphaPreference
        THEN [poll |-> closed,
              metrics |-> observeEarlyFail(m, Since(p.start, now)),
              finished |-> TRUE, reason |-> EarlyFailCase]
        ELSE IF Len(p.confidences) > 0
        THEN [poll |-> closed, metrics |-> errDriven.metrics,
              finished |-> errDriven.fin, reason |-> errDriven.reason]
        ELSE IF freq >= p.alphaPreference /\ maxPossibleVotes < p.alphaConfidence
        THEN [poll |-> closed,
              metrics |-> observeEarlyAlphaPref(m, Since(p.start, now)),
              finished |-> TRUE, reason |-> EarlyAlphaPrefCase]
        ELSE IF freq >= p.alphaConfidence
        THEN [poll |-> closed,
              metrics |-> observeEarlyAlphaConf(m, Since(p.start, now)),
              finished |-> TRUE, reason |-> EarlyAlphaConfCase]
        ELSE [poll |-> closed, metrics |-> m,
              finished |-> FALSE, reason |-> NotFinishedCase]

\* finishedAndReason that takes a termination counted in the metrics it
\* shares for the termination of its own poll
finishedAndReason_SharedLatch(p, m, now) ==
    LET remaining == BagLen(p.polled)
        received == BagLen(p.votes)
        maxPossibleVotes == received + remaining
        freq == ModeFreq(p.votes)
        closed == [p EXCEPT !.finished = TRUE]
        errDriven == shouldTerminateEarlyErrDriven(p, m, freq, maxPossibleVotes, now)
        counted == m.countExhaustedPolls + m.countEarlyFailPolls
                     + m.countEarlyAlphaPrefPolls + m.countEarlyAlphaConfPolls
    IN  IF p.finished \/ counted > 0
        THEN [poll |-> closed, metrics |-> m,
              finished |-> TRUE, reason |-> NotFinishedCase]
        ELSE IF remaining = 0
        THEN [poll |-> closed,
              metrics |-> observeExhausted(m, Since(p.start, now)),
              finished |-> TRUE, reason |-> ExhaustedCase]
        ELSE IF maxPossibleVotes < p.alphaPreference
        THEN [poll |-> closed,
              metrics |-> observeEarlyFail(m, Since(p.start, now)),
              finished |-> TRUE, reason |-> EarlyFailCase]
        ELSE IF Len(p.confidences) > 0
        THEN IF errDriven.fin
             THEN [poll |-> closed, metrics |-> errDriven.metrics,
                   finished |-> TRUE, reason |-> errDriven.reason]
             ELSE [poll |-> p, metrics |-> errDriven.metrics,
                   finished |-> FALSE, reason |-> NotFinishedCase]
        ELSE IF freq >= p.alphaPreference /\ maxPossibleVotes < p.alphaConfidence
        THEN [poll |-> closed,
              metrics |-> observeEarlyAlphaPref(m, Since(p.start, now)),
              finished |-> TRUE, reason |-> EarlyAlphaPrefCase]
        ELSE IF freq >= p.alphaConfidence
        THEN [poll |-> closed,
              metrics |-> observeEarlyAlphaConf(m, Since(p.start, now)),
              finished |-> TRUE, reason |-> EarlyAlphaConfCase]
        ELSE [poll |-> p, metrics |-> m,
              finished |-> FALSE, reason |-> NotFinishedCase]

\* finishedAndReason that consults the error-driven rules before the two
\* common rules
finishedAndReason_ErrDrivenFirst(p, m, now) ==
    LET remaining == BagLen(p.polled)
        received == BagLen(p.votes)
        maxPossibleVotes == received + remaining
        freq == ModeFreq(p.votes)
        closed == [p EXCEPT !.finished = TRUE]
        errDriven == shouldTerminateEarlyErrDriven(p, m, freq, maxPossibleVotes, now)
    IN  IF p.finished
        THEN [poll |-> p, metrics |-> m,
              finished |-> TRUE, reason |-> NotFinishedCase]
        ELSE IF Len(p.confidences) > 0 /\ errDriven.fin
        THEN [poll |-> closed, metrics |-> errDriven.metrics,
              finished |-> TRUE, reason |-> errDriven.reason]
        ELSE IF remaining = 0
        THEN [poll |-> closed,
              metrics |-> observeExhausted(m, Since(p.start, now)),
              finished |-> TRUE, reason |-> ExhaustedCase]
        ELSE IF maxPossibleVotes < p.alphaPreference
        THEN [poll |-> closed,
              metrics |-> observeEarlyFail(m, Since(p.start, now)),
              finished |-> TRUE, reason |-> EarlyFailCase]
        ELSE IF Len(p.confidences) > 0
        THEN [poll |-> p, metrics |-> m,
              finished |-> FALSE, reason |-> NotFinishedCase]
        ELSE IF freq >= p.alphaPreference /\ maxPossibleVotes < p.alphaConfidence
        THEN [poll |-> closed,
              metrics |-> observeEarlyAlphaPref(m, Since(p.start, now)),
              finished |-> TRUE, reason |-> EarlyAlphaPrefCase]
        ELSE IF freq >= p.alphaConfidence
        THEN [poll |-> closed,
              metrics |-> observeEarlyAlphaConf(m, Since(p.start, now)),
              finished |-> TRUE, reason |-> EarlyAlphaConfCase]
        ELSE [poll |-> p, metrics |-> m,
              finished |-> FALSE, reason |-> NotFinishedCase]

\* finishedAndReason whose early-fail rule looks at the votes received only,
\* not at what the outstanding validators could add
finishedAndReason_FailOnReceived(p, m, now) ==
    LET remaining == BagLen(p.polled)
        received == BagLen(p.votes)
        maxPossibleVotes == received + remaining
        freq == ModeFreq(p.votes)
        closed == [p EXCEPT !.finished = TRUE]
        errDriven == shouldTerminateEarlyErrDriven(p, m, freq, maxPossibleVotes, now)
    IN  IF p.finished
        THEN [poll |-> p, metrics |-> m,
              finished |-> TRUE, reason |-> NotFinishedCase]
        ELSE IF remaining = 0
        THEN [poll |-> closed,
              metrics |-> observeExhausted(m, Since(p.start, now)),
              finished |-> TRUE, reason |-> ExhaustedCase]
        ELSE IF received < p.alphaPreference
        THEN [poll |-> closed,
              metrics |-> observeEarlyFail(m, Since(p.start, now)),
              finished |-> TRUE, reason |-> EarlyFailCase]
        ELSE IF Len(p.confidences) > 0
        THEN IF errDriven.fin
             THEN [poll |-> closed, metrics |-> errDriven.metrics,
                   finished |-> TRUE, reason |-> errDriven.reason]
             ELSE [poll |-> p, metrics |-> errDriven.metrics,
                   finished |-> FALSE, reason |-> NotFinishedCase]
        ELSE IF freq >= p.alphaPreference /\ maxPossibleVotes < p.alphaConfidence
        THEN [poll |-> closed,
              metrics |-> observeEarlyAlphaPref(m, Since(p.start, now)),
              finished |-> TRUE, reason |-> EarlyAlphaPrefCase]
        ELSE IF freq >= p.alphaConfidence
        THEN [poll |-> closed,
              metrics |-> observeEarlyAlphaConf(m, Since(p.start, now)),
              finished |-> TRUE, reason |-> EarlyAlphaConfCase]
        ELSE [poll |-> p, metrics |-> m,
              finished |-> FALSE, reason |-> NotFinishedCase]

\* finishedAndReason that compares the thresholds with the count of one
\* particular id, not with the largest count
finishedAndReason_CountOfA(p, m, now) ==
    LET remaining == BagLen(p.polled)
        received == BagLen(p.votes)
        maxPossibleVotes == received + remaining
        freq == Count(p.votes, "A")
        closed == [p EXCEPT !.finished = TRUE]
        errDriven == shouldTerminateEarlyErrDriven(p, m, freq, maxPossibleVotes, now)
    IN  IF p.finished
        THEN [poll |-> p, metrics |-> m,
              finished |-> TRUE, reason |-> NotFinishedCase]
        ELSE IF remaining = 0
        THEN [poll |-> closed,
              metrics |-> observeExhausted(m, Since(p.start, now)),
              finished |-> TRUE, reason |-> ExhaustedCase]
        ELSE IF maxPossibleVotes < p.alphaPreference
        THEN [poll |-> closed,
              metrics |-> observeEarlyFail(m, Since(p.start, now)),
              finished |-> TRUE, reason |-> EarlyFailCase]
        ELSE IF Len(p.confidences) > 0
        THEN IF errDriven.fin
             THEN [poll |-> closed, metrics |-> errDriven.metrics,
                   finished |-> TRUE, reason |-> errDriven.reason]
             ELSE [poll |-> p, metrics |-> errDriven.metrics,
                   finished |-> FALSE, reason |-> NotFinishedCase]
        ELSE IF freq >= p.alphaPreference /\ maxPossibleVotes < p.alphaConfidence
        THEN [poll |-> closed,
              metrics |-> observeEarlyAlphaPref(m, Since(p.start, now)),
              finished |-> TRUE, reason |-> EarlyAlphaPrefCase]
        ELSE IF freq >= p.alphaConfidence
        THEN [poll |-> closed,
              metrics |-> observeEarlyAlphaConf(m, Since(p.start, now)),
              finished |-> TRUE, reason |-> EarlyAlphaConfCase]
        ELSE [poll |-> p, metrics |-> m,
              finished |-> FALSE, reason |-> NotFinishedCase]

\* finishedAndReason without the rule for a poll with nothing outstanding
finishedAndReason_NoExhausted(p, m, now) ==
    LET remaining == BagLen(p.polled)
        received == BagLen(p.votes)
        maxPossibleVotes == received + remaining
        freq == ModeFreq(p.votes)
        closed == [p EXCEPT !.finished = TRUE]
        errDriven == shouldTerminateEarlyErrDriven(p, m, freq, maxPossibleVotes, now)
    IN  IF p.finished
        THEN [poll |-> p, metrics |-> m,
              finished |-> TRUE, reason |-> NotFinishedCase]
        ELSE IF maxPossibleVotes < p.alphaPreference
        THEN [poll |-> closed,
              metrics |-> observeEarlyFail(m, Since(p.start, now)),
              finished |-> TRUE, reason |-> EarlyFailCase]
        ELSE IF Len(p.confidences) > 0
        THEN IF errDriven.fin
             THEN [poll |-> closed, metrics |-> errDriven.metrics,
                   finished |-> TRUE, reason |-> errDriven.reason]
             ELSE [poll |-> p, metrics |-> errDriven.metrics,
                   finished |-> FALSE, reason |-> NotFinishedCase]
        ELSE IF freq >= p.alphaPreference /\ maxPossibleVotes < p.alphaConfidence
        THEN [poll |-> closed,
              metrics |-> observeEarlyAlphaPref(m, Since(p.start, now)),
              finished |-> TRUE, reason |-> EarlyAlphaPrefCase]
        ELSE IF freq >= p.alphaConfidence
        THEN [poll |-> closed,
              metrics |-> observeEarlyAlphaConf(m, Since(p.start, now)),
              finished |-> TRUE, reason |-> EarlyAlphaConfCase]
        ELSE [poll |-> p, metrics |-> m,
              finished |-> FALSE, reason |-> NotFinishedCase]

\* returns the poll and the metrics after the call, and the two results
finishedAndReason(p, m, now) ==
    LET remaining == BagLen(p.polled)
        received == BagLen(p.votes)
        maxPossibleVotes == received + remaining
        freq == ModeFreq(p.votes)
        closed == [p EXCEPT !.finished = TRUE]
        errDriven == shouldTerminateEarlyErrDriven(p, m, freq, maxPossibleVotes, now)
    IN  IF p.finished
        THEN [poll |-> p, metrics |-> m,
              finished |-> TRUE, reason |-> NotFinishedCase]
        ELSE IF remaining = 0
        THEN [poll |-> closed,
              metrics |-> observeExhausted(m, Since(p.start, now)),
              finished |-> TRUE, reason |-> ExhaustedCase]
        ELSE IF maxPossibleVotes < p.alphaPreference
        THEN [poll |-> closed,
              metrics |-> observeEarlyFail(m, Since(p.start, now)),
              finished |-> TRUE, reason |-> EarlyFailCase]
        ELSE IF Len(p.confidences) > 0
        THEN IF errDriven.fin
             THEN [poll |-> closed, metrics |-> errDriven.metrics,
                   finished |-> TRUE, reason |-> errDriven.reason]
             ELSE [poll |-> p, metrics |-> errDriven.metrics,
                   finished |-> FALSE, reason |-> NotFinishedCase]
        ELSE IF freq >= p.alphaPreference /\ maxPossibleVotes < p.alphaConfidence
        THEN [poll |-> closed,
              metrics |-> observeEarlyAlphaPref(m, Since(p.start, now)),
              finished |-> TRUE, reason |-> EarlyAlphaPrefCase]
        ELSE IF freq >= p.alphaConfidence
        THEN [poll |-> closed,
              metrics |-> observeEarlyAlphaConf(m, Since(p.start, now)),
              finished |-> TRUE, reason |-> EarlyAlphaConfCase]
        ELSE [poll |-> p, metrics |-> m,
              finished |-> FALSE, reason |-> NotFinishedCase]

Result(p) == p.votes

\* ------------------------------------------------------------------------
\* tracker.accepted: the last accepted block of every current validator
\* ------------------------------------------------------------------------
\* the nodes the tracker hears about
Trackees == {"v1", "v2"}

\* largest height of an accepted block
MaxHeight == 1
Heights == 0..MaxHeight

\* ids.Empty, the zero value of ids.ID
Empty == "Empty"

\* set.Set[T]: Add, Remove and Contains; the zero value is the empty set
SetAdd(s, elt) == s \cup {elt}
SetRemove(s, elt) == s \ {elt}
SetContains(s, elt) == elt \in s

\* delete(m, key) on a map
delete(m, key) == [k \in (DOMAIN m) \ {key} |-> m[k]]

\* m[key] = value on a map
assign(m, key, value) ==
    [k \in (DOMAIN m) \cup {key} |-> IF k = key THEN value ELSE m[k]]

nodeStats(blockID, height) == [blockID |-> blockID, height |-> height]

\* sync.RWMutex: whether a writer holds it, and how many readers do
Unlocked == [writer |-> FALSE, readers |-> 0]

\* Lock() that does not wait for anyone
CanLock_Always(l) == TRUE

\* Lock() returns once no writer and no reader holds the mutex
CanLock(l) == ~l.writer /\ l.readers = 0
Lock(l) == [l EXCEPT !.writer = TRUE]
Unlock(l) == [l EXCEPT !.writer = FALSE]

\* RLock() returns once no writer holds the mutex
CanRLock(l) == ~l.writer
RLock(l) == [l EXCEPT !.readers = @ + 1]
RUnlock(l) == [l EXCEPT !.readers = @ - 1]

\* the accepted struct NewAccepted() returns
NewAccepted ==
    [lock |-> Unlocked,
     validators |-> {},
     frontier |-> [n \in {} |-> nodeStats(Empty, 0)]]

\* the methods of accepted, from Lock() to the deferred Unlock(): each
\* returns the struct as the call leaves it
OnValidatorAdded(a, nodeID) ==
    [a EXCEPT !.validators = SetAdd(@, nodeID)]

\* OnValidatorRemoved that leaves the frontier entry of the node
OnValidatorRemoved_KeepsFrontier(a, nodeID) ==
    [a EXCEPT !.validators = SetRemove(@, nodeID)]

OnValidatorRemoved(a, nodeID) ==
    [a EXCEPT !.validators = SetRemove(@, nodeID),
              !.frontier = delete(@, nodeID)]

OnValidatorWeightChanged(a, nodeID) == a

\* SetLastAccepted that does not ask whether the node is a validator
SetLastAccepted_NoCheck(a, nodeID, frontier, height) ==
    [a EXCEPT !.frontier = assign(@, nodeID, nodeStats(frontier, height))]

SetLastAccepted(a, nodeID, frontier, height) ==
    IF SetContains(a.validators, nodeID)
    THEN [a EXCEPT !.frontier = assign(@, nodeID, nodeStats(frontier, height))]
    ELSE a

\* returns (blockID, height, ok): the zero nodeStats when there is no entry
LastAccepted(a, nodeID) ==
    IF nodeID \in DOMAIN a.frontier
    THEN [blockID |-> a.frontier[nodeID].blockID,
          height |-> a.frontier[nodeID].height, ok |-> TRUE]
    ELSE [blockID |-> Empty, height |-> 0, ok |-> FALSE]

\* the goroutines that call the tracker; each one is outside any call (idle)
\* or inside one, about to execute the statement pc
Goroutines == {"g1", "g2"}
Idle == [pc |-> "idle", nodeID |-> Empty, blockID |-> Empty, height |-> 0]

\* a completed call, as the log keeps it
Call(op, nodeID, blockID, height) ==
    [op |-> op, nodeID |-> nodeID, blockID |-> blockID, height |-> height]

\* longest sequence of calls made on one tracker
MaxCalls == 4

\* ------------------------------------------------------------------------
\* The state machine: one factory, one poll, and the calls of its owner
\* ------------------------------------------------------------------------
\* ret before any Finished() call, and after one
NotCalled == [called |-> FALSE, finished |-> FALSE, reason |-> NotFinishedCase]
Returned(finished, reason) ==
    [called |-> TRUE, finished |-> finished, reason |-> reason]

\* the clock readings a Finished() call may see
Clock == poll.start..(poll.start + MaxElapsed)

\* the zero value of the poll struct: no poll has been created
NoPoll ==
    [votes |-> EmptyBag, polled |-> EmptyBag,
     alphaPreference |-> 0, alphaConfidence |-> 0, confidences |-> <<>>,
     start |-> 0, finished |-> FALSE]

\* no second poll
NoTwin == [poll |-> NoPoll, metrics |-> earlyTermNoTraversalMetrics, ret |-> NotCalled]

\* what NewEarlyTermNoTraversalFactory returned: (Factory, error)
Built(made) == [factory |-> made.factory, err |-> made.err]

\* no tracker has been made
NoTracker ==
    /\ accepted = Nil
    /\ calls = <<>>
    /\ goroutines = Nil

\* a tracker just made, with no call made on it and none under way
FreshTracker ==
    /\ accepted = NewAccepted
    /\ calls = <<>>
    /\ goroutines = [g \in Goroutines |-> Idle]

\* one factory built against an empty registry, and one poll made by it
Init ==
    \E alphaPreference \in 1..MaxAlpha, alphaConfidence \in 1..MaxAlpha,
       alphaConfidences \in ConfidenceLists,
       bagOfVdrs \in SeededBags :
        /\ ValidParameters(alphaPreference, alphaConfidence, alphaConfidences)
        /\ LET made == NewEarlyTermNoTraversalFactory(
                           alphaPreference, alphaConfidence, {}, alphaConfidences)
               f == made.factory[1]
           IN  /\ reg = made.reg
               /\ built = Built(made)
               /\ vdrs = bagOfVdrs
               /\ poll = New(f, bagOfVdrs, 0)
               /\ metrics = f.metrics
        /\ ret = NotCalled
        /\ twin = NoTwin
        /\ NoTracker

\* the call Vote(vdr, vote)
VoteCall(vdr, vote) ==
    /\ poll' = Vote(poll, vdr, vote)
    /\ UNCHANGED <<vdrs, metrics, ret, twin, reg, built, accepted, calls, goroutines>>

\* the call Drop(vdr)
DropCall(vdr) ==
    /\ poll' = Drop(poll, vdr)
    /\ UNCHANGED <<vdrs, metrics, ret, twin, reg, built, accepted, calls, goroutines>>

\* the call Finished() when the clock reads now; ret keeps the reason
\* finishedAndReason computed next to the result
FinishedCall(now) ==
    LET r == finishedAndReason(poll, metrics, now)
    IN  /\ poll' = r.poll
        /\ metrics' = r.metrics
        /\ ret' = Returned(r.finished, r.reason)
        /\ UNCHANGED <<vdrs, twin, reg, built, accepted, calls, goroutines>>

DoVote == \E vdr \in NodeIDs, vote \in IDs : VoteCall(vdr, vote)

DoDrop == \E vdr \in NodeIDs : DropCall(vdr)

DoFinished == \E now \in Clock : FinishedCall(now)

\* the call Result(): it hands out votes and changes nothing
DoResult ==
    /\ Result(poll) = poll.votes
    /\ UNCHANGED vars

Next == DoVote \/ DoDrop \/ DoFinished \/ DoResult

Spec == Init /\ [][Next]_vars

\* ------------------------------------------------------------------------
\* Two polls fed the same responses, Finished() evaluated after each: one
\* with confidences empty, its twin with confidences = [alphaConfidence],
\* each made by its own factory on its own registry
\* ------------------------------------------------------------------------
\* the poll p after a call, once Finished() has been evaluated on it, with
\* its metrics and what Finished() returned
Evaluated(p, m, now) ==
    LET r == finishedAndReason(p, m, now)
    IN  [poll |-> r.poll, metrics |-> r.metrics,
         ret |-> Returned(r.finished, r.reason)]

EquivInit ==
    \E alphaPreference \in 1..MaxAlpha, alphaConfidence \in 1..MaxAlpha,
       bagOfVdrs \in SeededBags :
        /\ ValidParameters(alphaPreference, alphaConfidence, <<>>)
        /\ ValidParameters(alphaPreference, alphaConfidence, <<alphaConfidence>>)
        /\ LET made == NewEarlyTermNoTraversalFactory(
                           alphaPreference, alphaConfidence, {}, <<>>)
               madeTwin == NewEarlyTermNoTraversalFactory(
                               alphaPreference, alphaConfidence, {},
                               <<alphaConfidence>>)
               f == made.factory[1]
               g == madeTwin.factory[1]
           IN  /\ reg = made.reg
               /\ built = Built(made)
               /\ vdrs = bagOfVdrs
               /\ poll = New(f, bagOfVdrs, 0)
               /\ metrics = f.metrics
               /\ twin = [poll |-> New(g, bagOfVdrs, 0), metrics |-> g.metrics,
                          ret |-> NotCalled]
        /\ ret = NotCalled
        /\ NoTracker

\* both polls after the same call, then Finished() on both
EquivBoth(a, b) ==
    /\ poll' = a.poll
    /\ metrics' = a.metrics
    /\ ret' = a.ret
    /\ twin' = b
    /\ UNCHANGED <<vdrs, reg, built, accepted, calls, goroutines>>

EquivVote(vdr, vote, now) ==
    EquivBoth(Evaluated(Vote(poll, vdr, vote), metrics, now),
              Evaluated(Vote(twin.poll, vdr, vote), twin.metrics, now))

EquivDrop(vdr, now) ==
    EquivBoth(Evaluated(Drop(poll, vdr), metrics, now),
              Evaluated(Drop(twin.poll, vdr), twin.metrics, now))

DoEquivVote == \E vdr \in NodeIDs, vote \in IDs, now \in Clock : EquivVote(vdr, vote, now)

DoEquivDrop == \E vdr \in NodeIDs, now \in Clock : EquivDrop(vdr, now)

EquivNext == DoEquivVote \/ DoEquivDrop

SpecEquiv == EquivInit /\ [][EquivNext]_vars

\* ------------------------------------------------------------------------
\* Two polls with equal parameters and equal seeds, each made by its own
\* factory on its own registry, driven by the same calls; each Finished()
\* call reads the clock for itself
\* ------------------------------------------------------------------------
ReplayInit ==
    \E alphaPreference \in 1..MaxAlpha, alphaConfidence \in 1..MaxAlpha,
       alphaConfidences \in ConfidenceLists,
       bagOfVdrs \in SeededBags :
        /\ ValidParameters(alphaPreference, alphaConfidence, alphaConfidences)
        /\ LET made == NewEarlyTermNoTraversalFactory(
                           alphaPreference, alphaConfidence, {}, alphaConfidences)
               madeTwin == NewEarlyTermNoTraversalFactory(
                               alphaPreference, alphaConfidence, {}, alphaConfidences)
               f == made.factory[1]
               g == madeTwin.factory[1]
           IN  /\ reg = made.reg
               /\ built = Built(made)
               /\ vdrs = bagOfVdrs
               /\ poll = New(f, bagOfVdrs, 0)
               /\ metrics = f.metrics
               /\ twin = [poll |-> New(g, bagOfVdrs, 0), metrics |-> g.metrics,
                          ret |-> NotCalled]
        /\ ret = NotCalled
        /\ NoTracker

\* the clock readings a Finished() call of the twin may see
TwinClock == twin.poll.start..(twin.poll.start + MaxElapsed)

ReplayVote(vdr, vote) ==
    /\ poll' = Vote(poll, vdr, vote)
    /\ twin' = [twin EXCEPT !.poll = Vote(@, vdr, vote)]
    /\ UNCHANGED <<vdrs, metrics, ret, reg, built, accepted, calls, goroutines>>

ReplayDrop(vdr) ==
    /\ poll' = Drop(poll, vdr)
    /\ twin' = [twin EXCEPT !.poll = Drop(@, vdr)]
    /\ UNCHANGED <<vdrs, metrics, ret, reg, built, accepted, calls, goroutines>>

ReplayFinished(now, nowTwin) ==
    LET a == Evaluated(poll, metrics, now)
        b == Evaluated(twin.poll, twin.metrics, nowTwin)
    IN  /\ poll' = a.poll
        /\ metrics' = a.metrics
        /\ ret' = a.ret
        /\ twin' = b
        /\ UNCHANGED <<vdrs, reg, built, accepted, calls, goroutines>>

DoReplayVote == \E vdr \in NodeIDs, vote \in IDs : ReplayVote(vdr, vote)

DoReplayDrop == \E vdr \in NodeIDs : ReplayDrop(vdr)

DoReplayFinished == \E now \in Clock, nowTwin \in TwinClock : ReplayFinished(now, nowTwin)

\* Result() on both polls
DoReplayResult ==
    /\ Result(poll) = poll.votes
    /\ Result(twin.poll) = twin.poll.votes
    /\ UNCHANGED vars

ReplayNext == DoReplayVote \/ DoReplayDrop \/ DoReplayFinished \/ DoReplayResult

SpecReplay == ReplayInit /\ [][ReplayNext]_vars

\* ------------------------------------------------------------------------
\* Two polls made by one factory from separate validator bags, at different
\* times: they share the factory's metrics, and their owners' calls
\* interleave. Next to each poll runs a copy of it that receives the same
\* calls alone, on metrics of its own.
\* ------------------------------------------------------------------------
\* the bags each of the two polls is seeded with: no validator, one, or two
PairSeeds ==
    {b \in SeededBags : Count(b, "v1") <= 1 /\ Count(b, "v3") = 0}

\* the second poll is created after the first
StartOfTwin == MaxElapsed

Polls == 1..2

\* poll 1 is poll, poll 2 is twin.poll
Poll(i) == IF i = 1 THEN poll ELSE twin.poll

\* poll i running alone: the poll and its metrics
Alone(p, m) == [poll |-> p, metrics |-> m]

InterleavedInit ==
    \E alphaPreference \in 1..MaxAlpha, alphaConfidence \in 1..MaxAlpha,
       alphaConfidences \in ConfidenceLists,
       bagOfVdrs \in PairSeeds, bagOfTwin \in PairSeeds :
        /\ ValidParameters(alphaPreference, alphaConfidence, alphaConfidences)
        /\ LET made == NewEarlyTermNoTraversalFactory(
                           alphaPreference, alphaConfidence, {}, alphaConfidences)
               f == made.factory[1]
           IN  /\ reg = made.reg
               /\ built = Built(made)
               /\ vdrs = bagOfVdrs
               /\ poll = New(f, bagOfVdrs, 0)
               /\ metrics = f.metrics
               /\ twin = [poll |-> New(f, bagOfTwin, StartOfTwin),
                          alone |-> <<Alone(New(f, bagOfVdrs, 0),
                                            earlyTermNoTraversalMetrics),
                                      Alone(New(f, bagOfTwin, StartOfTwin),
                                            earlyTermNoTraversalMetrics)>>]
        /\ ret = NotCalled
        /\ NoTracker

\* poll i becomes p and its copy running alone becomes a
Update(i, p, a) ==
    /\ poll' = IF i = 1 THEN p ELSE poll
    /\ twin' = [poll |-> IF i = 2 THEN p ELSE twin.poll,
                alone |-> [twin.alone EXCEPT ![i] = a]]

InterleavedVote(i, vdr, vote) ==
    /\ Update(i, Vote(Poll(i), vdr, vote),
               [twin.alone[i] EXCEPT !.poll = Vote(@, vdr, vote)])
    /\ UNCHANGED <<vdrs, metrics, ret, reg, built, accepted, calls, goroutines>>

InterleavedDrop(i, vdr) ==
    /\ Update(i, Drop(Poll(i), vdr),
               [twin.alone[i] EXCEPT !.poll = Drop(@, vdr)])
    /\ UNCHANGED <<vdrs, metrics, ret, reg, built, accepted, calls, goroutines>>

\* Finished() of poll i on the shared metrics, and of its copy on its own
InterleavedFinished(i, now) ==
    LET r == finishedAndReason(Poll(i), metrics, now)
        a == finishedAndReason(twin.alone[i].poll, twin.alone[i].metrics, now)
    IN  /\ Update(i, r.poll, Alone(a.poll, a.metrics))
        /\ metrics' = r.metrics
        /\ UNCHANGED <<vdrs, ret, reg, built, accepted, calls, goroutines>>

\* the clock readings a Finished() call of poll i may see
ClockOf(i) == Poll(i).start..(Poll(i).start + MaxElapsed)

DoInterleavedVote ==
    \E i \in Polls, vdr \in NodeIDs, vote \in IDs : InterleavedVote(i, vdr, vote)

DoInterleavedDrop == \E i \in Polls, vdr \in NodeIDs : InterleavedDrop(i, vdr)

DoInterleavedFinished == \E i \in Polls : \E now \in ClockOf(i) : InterleavedFinished(i, now)

DoInterleavedResult ==
    /\ \E i \in Polls : Result(Poll(i)) = Poll(i).votes
    /\ UNCHANGED vars

InterleavedNext ==
    \/ DoInterleavedVote
    \/ DoInterleavedDrop
    \/ DoInterleavedFinished
    \/ DoInterleavedResult

SpecInterleaved == InterleavedInit /\ [][InterleavedNext]_vars

\* ------------------------------------------------------------------------
\* The construction of factories against one registry, which may already
\* hold either collector name, and of polls from the factory last built
\* ------------------------------------------------------------------------
FactoryInit ==
    /\ reg \in SUBSET CollectorNames
    /\ built = [factory |-> Nil, err |-> Nil]
    /\ vdrs = EmptyBag
    /\ poll = NoPoll
    /\ metrics = earlyTermNoTraversalMetrics
    /\ ret = NotCalled
    /\ twin = NoTwin
    /\ NoTracker

\* the call NewEarlyTermNoTraversalFactory(alphaPreference, alphaConfidence,
\* reg, alphaConfidences); the code checks no parameter, so the two alphas
\* are any two numbers, zero and alphaPreference > alphaConfidence included,
\* and the thresholds any ascending list
FactoryCall(alphaPreference, alphaConfidence, alphaConfidences) ==
    LET made == NewEarlyTermNoTraversalFactory(
                    alphaPreference, alphaConfidence, reg, alphaConfidences)
    IN  /\ reg' = made.reg
        /\ built' = Built(made)
        /\ metrics' = IF made.err = Nil THEN made.factory[1].metrics ELSE metrics
        /\ UNCHANGED <<vdrs, poll, ret, twin, accepted, calls, goroutines>>

\* the call New(bagOfVdrs) on the factory last built, when the clock reads
\* now
NewCall(bagOfVdrs, now) ==
    /\ built.factory # Nil
    /\ poll' = New(built.factory[1], bagOfVdrs, now)
    /\ vdrs' = bagOfVdrs
    /\ UNCHANGED <<metrics, ret, twin, reg, built, accepted, calls, goroutines>>

DoFactory ==
    \E alphaPreference \in 0..MaxAlpha, alphaConfidence \in 0..MaxAlpha,
       alphaConfidences \in AscendingLists :
        FactoryCall(alphaPreference, alphaConfidence, alphaConfidences)

DoNew == \E bagOfVdrs \in SmallSeeds, now \in 0..MaxElapsed : NewCall(bagOfVdrs, now)

FactoryNext == DoFactory \/ DoNew

SpecFactory == FactoryInit /\ [][FactoryNext]_vars

\* ------------------------------------------------------------------------
\* One accepted tracker and the calls made on it, one after the other: every
\* method holds the lock from its first statement to its return
\* ------------------------------------------------------------------------
\* no factory and no poll
NoFactory ==
    /\ reg = {}
    /\ built = [factory |-> Nil, err |-> Nil]
    /\ vdrs = EmptyBag
    /\ poll = NoPoll
    /\ metrics = earlyTermNoTraversalMetrics
    /\ ret = NotCalled
    /\ twin = NoTwin

TrackerInit ==
    /\ NoFactory
    /\ FreshTracker

\* the tracker becomes a and the call is logged
Completed(a, call) ==
    /\ Len(calls) < MaxCalls
    /\ accepted' = a
    /\ calls' = Append(calls, call)
    /\ UNCHANGED <<vdrs, poll, metrics, ret, twin, reg, built, goroutines>>

OnValidatorAddedCall(nodeID) ==
    Completed(OnValidatorAdded(accepted, nodeID),
              Call("OnValidatorAdded", nodeID, Empty, 0))

OnValidatorRemovedCall(nodeID) ==
    Completed(OnValidatorRemoved(accepted, nodeID),
              Call("OnValidatorRemoved", nodeID, Empty, 0))

SetLastAcceptedCall(nodeID, blockID, height) ==
    Completed(SetLastAccepted(accepted, nodeID, blockID, height),
              Call("SetLastAccepted", nodeID, blockID, height))

DoOnValidatorAdded == \E nodeID \in Trackees : OnValidatorAddedCall(nodeID)

DoOnValidatorRemoved == \E nodeID \in Trackees : OnValidatorRemovedCall(nodeID)

DoSetLastAccepted ==
    \E nodeID \in Trackees, blockID \in IDs, height \in Heights :
        SetLastAcceptedCall(nodeID, blockID, height)

\* the call OnValidatorWeightChanged(nodeID, _, _): an empty body
DoOnValidatorWeightChanged ==
    /\ \E nodeID \in Trackees : OnValidatorWeightChanged(accepted, nodeID) = accepted
    /\ UNCHANGED vars

\* the call LastAccepted(nodeID): it reads the frontier and changes nothing
DoLastAccepted ==
    /\ \E nodeID \in Trackees :
          LastAccepted(accepted, nodeID).ok = (nodeID \in DOMAIN accepted.frontier)
    /\ UNCHANGED vars

TrackerNext ==
    \/ DoOnValidatorAdded
    \/ DoOnValidatorRemoved
    \/ DoSetLastAccepted
    \/ DoOnValidatorWeightChanged
    \/ DoLastAccepted

SpecTracker == TrackerInit /\ [][TrackerNext]_vars

\* ------------------------------------------------------------------------
\* One accepted tracker called by several goroutines at once: each call
\* takes the lock, executes its statements one by one and releases the lock
\* on return
\* ------------------------------------------------------------------------
LockedInit ==
    /\ NoFactory
    /\ FreshTracker

\* goroutine g enters a method, past its Lock() or RLock(), and stands
\* before the statement pc
Inside(pc, nodeID, blockID, height) ==
    [pc |-> pc, nodeID |-> nodeID, blockID |-> blockID, height |-> height]

\* the tracker becomes a and goroutine g moves to where
Move(g, a, where) ==
    /\ accepted' = a
    /\ goroutines' = [goroutines EXCEPT ![g] = where]
    /\ UNCHANGED <<vdrs, poll, metrics, ret, twin, reg, built, calls>>

\* a.lock.Lock() of a writing method, whose first statement is pc
Enter(g, pc, nodeID, blockID, height) ==
    /\ goroutines[g] = Idle
    /\ CanLock(accepted.lock)
    /\ Move(g, [accepted EXCEPT !.lock = Lock(@)],
            Inside(pc, nodeID, blockID, height))

\* a.lock.RLock() of LastAccepted
EnterLastAccepted(g, nodeID) ==
    /\ goroutines[g] = Idle
    /\ CanRLock(accepted.lock)
    /\ Move(g, [accepted EXCEPT !.lock = RLock(@)],
            Inside("frontier[nodeID]", nodeID, Empty, 0))

\* OnValidatorAdded: a.validators.Add(nodeID), and the deferred Unlock()
AddStep(g) ==
    /\ goroutines[g].pc = "validators.Add"
    /\ Move(g, [accepted EXCEPT !.validators = SetAdd(@, goroutines[g].nodeID),
                                !.lock = Unlock(@)],
            Idle)

\* OnValidatorRemoved: a.validators.Remove(nodeID)
RemoveStep(g) ==
    /\ goroutines[g].pc = "validators.Remove"
    /\ Move(g, [accepted EXCEPT !.validators = SetRemove(@, goroutines[g].nodeID)],
            [goroutines[g] EXCEPT !.pc = "delete"])

\* OnValidatorRemoved: delete(a.frontier, nodeID), and the deferred Unlock()
DeleteStep(g) ==
    /\ goroutines[g].pc = "delete"
    /\ Move(g, [accepted EXCEPT !.frontier = delete(@, goroutines[g].nodeID),
                                !.lock = Unlock(@)],
            Idle)

\* SetLastAccepted: if a.validators.Contains(nodeID), and the deferred
\* Unlock() when it does not
ContainsStep(g) ==
    /\ goroutines[g].pc = "validators.Contains"
    /\ IF SetContains(accepted.validators, goroutines[g].nodeID)
       THEN Move(g, accepted, [goroutines[g] EXCEPT !.pc = "frontier[nodeID] ="])
       ELSE Move(g, [accepted EXCEPT !.lock = Unlock(@)], Idle)

\* SetLastAccepted: a.frontier[nodeID] = nodeStats{...}, and the deferred
\* Unlock()
AssignStep(g) ==
    /\ goroutines[g].pc = "frontier[nodeID] ="
    /\ Move(g, [accepted EXCEPT
                   !.frontier = assign(@, goroutines[g].nodeID,
                                       nodeStats(goroutines[g].blockID,
                                                 goroutines[g].height)),
                   !.lock = Unlock(@)],
            Idle)

\* LastAccepted: stats, ok := a.frontier[nodeID], the return, and the
\* deferred RUnlock()
ReadStep(g) ==
    /\ goroutines[g].pc = "frontier[nodeID]"
    /\ Move(g, [accepted EXCEPT !.lock = RUnlock(@)], Idle)

GoOnValidatorAdded ==
    \E g \in Goroutines :
       \/ \E nodeID \in Trackees : Enter(g, "validators.Add", nodeID, Empty, 0)
       \/ AddStep(g)

GoOnValidatorRemoved ==
    \E g \in Goroutines :
       \/ \E nodeID \in Trackees : Enter(g, "validators.Remove", nodeID, Empty, 0)
       \/ RemoveStep(g)
       \/ DeleteStep(g)

GoSetLastAccepted ==
    \E g \in Goroutines :
       \/ \E nodeID \in Trackees, blockID \in IDs, height \in Heights :
             Enter(g, "validators.Contains", nodeID, blockID, height)
       \/ ContainsStep(g)
       \/ AssignStep(g)

GoLastAccepted ==
    \E g \in Goroutines :
       \/ \E nodeID \in Trackees : EnterLastAccepted(g, nodeID)
       \/ ReadStep(g)

LockedNext ==
    \/ GoOnValidatorAdded
    \/ GoOnValidatorRemoved
    \/ GoSetLastAccepted
    \/ GoLastAccepted

SpecLocked == LockedInit /\ [][LockedNext]_vars

\* ------------------------------------------------------------------------
\* Properties
\* ------------------------------------------------------------------------
\* what the owner of the poll observes
remaining == BagLen(poll.polled)
received == BagLen(poll.votes)
maxPossible == received + remaining
\* some vote id has been voted at least n times (the largest count is >= n)
FreqAtLeast(n) == n <= 0 \/ \E id \in IDs : Count(poll.votes, id) >= n

SingleThreshold == Len(poll.confidences) = 0
ErrDriven == Len(poll.confidences) > 0

\* the last Finished() call returned true / false
ReturnedTrue == ret.called /\ ret.finished
ReturnedFalse == ret.called /\ ~ret.finished

\* this step is a call of Finished(), of Vote(vdr, _) or Drop(vdr)
FinishedStep == \E now \in Clock : FinishedCall(now)
ResponseStep(vdr) == DropCall(vdr) \/ \E vote \in IDs : VoteCall(vdr, vote)

TotalCount(m) ==
    m.countExhaustedPolls + m.countEarlyFailPolls
      + m.countEarlyAlphaPrefPolls + m.countEarlyAlphaConfPolls

\* C1 (latch): once a Finished() call has returned true, the finished flag
\* is set and stays set over every later Vote, Drop, Finished and Result
\* call, and every later Finished() call returns true.
Latch ==
    /\ [](ReturnedTrue => poll.finished)
    /\ [][/\ poll.finished => poll'.finished
          /\ ReturnedTrue => ReturnedTrue'
          /\ (poll.finished /\ FinishedStep) => ReturnedTrue']_vars

\* a Finished() call answered true from the latch (reason 0) after the poll
\* had been closed and validators had responded
LatchWitness ==
    /\ ReturnedTrue
    /\ ret.reason = NotFinishedCase
    /\ poll.finished
    /\ received > 0
    /\ remaining < BagLen(vdrs) - received

ExactlyOnceMetrics ==
    /\ [](/\ TotalCount(metrics) <= 1
          /\ poll.finished <=> TotalCount(metrics) = 1
          /\ ReturnedTrue => TotalCount(metrics) = 1)
    /\ [][metrics' # metrics =>
            /\ FinishedStep
            /\ ReturnedTrue'
            /\ ~poll.finished
            /\ poll'.finished
            /\ TotalCount(metrics') = TotalCount(metrics) + 1]_vars

\* an error-driven poll closed on early_alpha_pref on which Finished() was
\* called again after the latch: still one reason counted
ExactlyOnceMetricsWitness ==
    /\ ErrDriven
    /\ ReturnedTrue
    /\ ret.reason = NotFinishedCase
    /\ TotalCount(metrics) = 1
    /\ metrics.countEarlyAlphaPrefPolls = 1

\* C4 (bounded accumulation): votes.len() + outstanding.len() never exceeds
\* the length k of the seeded validator bag and never increases; a Vote
\* keeps the sum, a Drop of an outstanding validator lowers it (a step that
\* changes the sum is no Vote, one that does not lower it is no such Drop).
BoundedAccumulation ==
    /\ [](received + remaining <= BagLen(vdrs))
    /\ [][LET before == BagLen(poll.votes) + BagLen(poll.polled)
              after == BagLen(poll'.votes) + BagLen(poll'.polled)
          IN  /\ after <= before
              /\ \A vdr \in NodeIDs :
                    /\ \A vote \in IDs :
                          after # before => ~VoteCall(vdr, vote)
                    /\ (after >= before /\ Count(poll.polled, vdr) > 0)
                          => ~DropCall(vdr)]_vars

\* votes were received and a seeded validator was dropped: the sum is
\* below k, with validators left
BoundedAccumulationWitness ==
    /\ received > 0
    /\ remaining > 0
    /\ received + remaining < BagLen(vdrs)

\* C5 (monotone multisets): outstanding.len() and the count of every
\* validator in outstanding never increase; votes.len() and the count of
\* every vote id in votes never decrease.
MonotoneMultisets ==
    [][/\ BagLen(poll'.polled) <= BagLen(poll.polled)
       /\ \A vdr \in NodeIDs :
             Count(poll'.polled, vdr) <= Count(poll.polled, vdr)
       /\ BagLen(poll'.votes) >= BagLen(poll.votes)
       /\ \A id \in IDs :
             Count(poll'.votes, id) >= Count(poll.votes, id)]_vars

\* two validators voted the same id (its count exceeds every validator's
\* multiplicity) and another is still outstanding
MonotoneMultisetsWitness ==
    /\ remaining > 0
    /\ \E id \in IDs : \A vdr \in NodeIDs :
          Count(poll.votes, id) > Count(vdrs, vdr)

\* C6 (vote weight): a Vote(v, id) on an open poll, with c the count of v
\* in outstanding before the call, leaves v with count 0 in outstanding,
\* raises the count of id in votes by exactly c, and changes no other count.
VoteWeight ==
    [][\A v \in NodeIDs, id \in IDs :
          LET c == Count(poll.polled, v)
              Weighed ==
                 /\ Count(poll'.polled, v) = 0
                 /\ Count(poll'.votes, id) = Count(poll.votes, id) + c
                 /\ \A vdr \in NodeIDs \ {v} :
                       Count(poll'.polled, vdr) = Count(poll.polled, vdr)
                 /\ \A other \in IDs \ {id} :
                       Count(poll'.votes, other) = Count(poll.votes, other)
          IN  ~poll.finished => (Weighed \/ ~VoteCall(v, id))]_vars

\* the one Vote made so far on an open poll came from a validator seeded
\* with multiplicity > 1: the tally holds exactly that multiplicity
VoteWeightWitness ==
    /\ ~poll.finished
    /\ \E v \in NodeIDs, id \in IDs :
          /\ Count(vdrs, v) > 1
          /\ Count(poll.polled, v) = 0
          /\ DOMAIN poll.votes = {id}
          /\ poll.votes[id] = Count(vdrs, v)
          /\ remaining = BagLen(vdrs) - Count(vdrs, v)
          /\ remaining > 0

\* C7 (single effective response): a Vote(v, _) or Drop(v) call made when v
\* is not outstanding changes neither votes nor outstanding; after any
\* Vote(v, _) or Drop(v) call v is not outstanding, and no call makes a
\* validator outstanding again: at most one such call per validator, the
\* first made while v is outstanding, changes the poll.
SingleEffectiveResponse ==
    [][\A v \in NodeIDs :
          LET Answered ==
                 /\ Count(poll'.polled, v) = 0
                 /\ Count(poll.polled, v) = 0 =>
                       /\ poll'.votes = poll.votes
                       /\ poll'.polled = poll.polled
          IN  /\ Count(poll.polled, v) = 0 => Count(poll'.polled, v) = 0
              /\ Answered \/ ~ResponseStep(v)]_vars

\* a seeded validator has voted and another has been dropped, while a third
\* is outstanding: further calls for the first two are the claim's case
SingleEffectiveResponseWitness ==
    /\ remaining > 0
    /\ \E v, w \in NodeIDs :
          /\ v # w
          /\ Count(vdrs, v) > 0 /\ Count(poll.polled, v) = 0
          /\ Count(vdrs, w) > 0 /\ Count(poll.polled, w) = 0
          /\ received = Count(vdrs, v)

\* C8 (unknown validators): a Vote(v, id) or Drop(v) for a validator v that
\* is not in the seeded bag changes nothing: votes (no entry for id is
\* added), outstanding, the finished flag and the metrics stay as they were.
UnknownValidator ==
    [][\A v \in NodeIDs :
          (ResponseStep(v) /\ Count(vdrs, v) = 0) =>
             /\ poll' = poll
             /\ DOMAIN poll'.votes = DOMAIN poll.votes
             /\ metrics' = metrics]_vars

\* a poll seeded without some validator, open, with a vote received and an
\* id that has no entry in the tally
UnknownValidatorWitness ==
    /\ \E v \in NodeIDs : Count(vdrs, v) = 0
    /\ ~poll.finished
    /\ received > 0
    /\ remaining > 0
    /\ DOMAIN poll.votes # IDs

\* the four termination rules of single-threshold mode, on what the owner
\* observes
SingleThresholdTerminates ==
    \/ remaining = 0
    \/ maxPossible < poll.alphaPreference
    \/ FreqAtLeast(poll.alphaPreference) /\ maxPossible < poll.alphaConfidence
    \/ FreqAtLeast(poll.alphaConfidence)

\* C9 (single-threshold predicate): with confidences empty, a Finished()
\* call on a poll not yet finished returns true, and closes the poll, iff
\* remaining = 0, or max_possible < alpha_preference, or freq >=
\* alpha_preference and max_possible < alpha_confidence, or freq >=
\* alpha_confidence; otherwise it returns false and the poll stays open.
SingleThresholdPredicate ==
    [][(FinishedStep /\ ~poll.finished /\ SingleThreshold) =>
          /\ ret'.called
          /\ ret'.finished <=> SingleThresholdTerminates
          /\ poll'.finished <=> ret'.finished]_vars

\* Finished() has answered false and the poll is open one identical vote
\* short of alpha_confidence, on a split tally, with validators outstanding
SingleThresholdPredicateWitness ==
    /\ SingleThreshold
    /\ ReturnedFalse
    /\ ~poll.finished
    /\ DOMAIN poll.votes = IDs
    /\ FreqAtLeast(poll.alphaConfidence - 1)
    /\ remaining > 0

\* the first of the four rules that matches, in the order exhausted,
\* early_fail, early_alpha_pref, early_alpha_conf
FirstMatchingReason ==
    IF remaining = 0 THEN ExhaustedCase
    ELSE IF maxPossible < poll.alphaPreference THEN EarlyFailCase
    ELSE IF FreqAtLeast(poll.alphaPreference)
              /\ maxPossible < poll.alphaConfidence THEN EarlyAlphaPrefCase
    ELSE IF FreqAtLeast(poll.alphaConfidence) THEN EarlyAlphaConfCase
    ELSE NotFinishedCase

Reasons == {ExhaustedCase, EarlyFailCase, EarlyAlphaPrefCase, EarlyAlphaConfCase}

CountOf(m, reason) ==
    CASE reason = ExhaustedCase -> m.countExhaustedPolls
      [] reason = EarlyFailCase -> m.countEarlyFailPolls
      [] reason = EarlyAlphaPrefCase -> m.countEarlyAlphaPrefPolls
      [] reason = EarlyAlphaConfCase -> m.countEarlyAlphaConfPolls

\* C10 (single-threshold reason precedence): when a Finished() call closes
\* a poll with confidences empty, the reason returned and the one counter
\* incremented are those of the first matching rule in the order exhausted,
\* early_fail, early_alpha_pref, early_alpha_conf.
SingleThresholdPrecedence ==
    [][(FinishedStep /\ ~poll.finished /\ poll'.finished /\ SingleThreshold) =>
          /\ ret'.reason = FirstMatchingReason
          /\ \A r \in Reasons :
                CountOf(metrics', r) =
                   CountOf(metrics, r) + (IF r = FirstMatchingReason THEN 1 ELSE 0)]_vars

\* the vote of the last outstanding validator brought freq to
\* alpha_confidence and the poll closed as exhausted
SingleThresholdPrecedenceWitness ==
    /\ SingleThreshold
    /\ ReturnedTrue
    /\ ret.reason = ExhaustedCase
    /\ metrics.countExhaustedPolls = 1
    /\ received > 0
    /\ FreqAtLeast(poll.alphaConfidence)

\* the confidence thresholds C of the poll, C[1] the lowest
C == poll.confidences

\* max_possible is below the lowest threshold, or freq has reached a
\* threshold whose successor max_possible can no longer reach
GapBelowNextThreshold ==
    \/ maxPossible < C[1]
    \/ \E i \in 1..(Len(C) - 1) : FreqAtLeast(C[i]) /\ maxPossible < C[i + 1]

\* C11 (error-driven termination predicate): with confidences C not empty
\* and neither the exhausted nor the early-fail rule applying, a Finished()
\* call on an open poll returns true with early_alpha_conf iff freq >=
\* C[last]; otherwise it returns false when freq < alpha_preference;
\* otherwise it returns true with early_alpha_pref iff max_possible < C[0]
\* or freq >= C[i] and max_possible < C[i+1] for some i in 0..len(C)-2; in
\* the remaining cases it returns false. The poll closes iff it returns true.
ErrDrivenPredicate ==
    [][(/\ FinishedStep
        /\ ~poll.finished
        /\ ErrDriven
        /\ remaining > 0
        /\ maxPossible >= poll.alphaPreference) =>
          /\ ret' = Returned(TRUE, EarlyAlphaConfCase) <=> FreqAtLeast(C[Len(C)])
          /\ ~FreqAtLeast(C[Len(C)]) =>
                /\ ~FreqAtLeast(poll.alphaPreference) =>
                      ret' = Returned(FALSE, NotFinishedCase)
                /\ FreqAtLeast(poll.alphaPreference) =>
                      /\ ret' = Returned(TRUE, EarlyAlphaPrefCase)
                            <=> GapBelowNextThreshold
                      /\ ~GapBelowNextThreshold =>
                            ret' = Returned(FALSE, NotFinishedCase)
          /\ poll'.finished <=> ret'.finished]_vars

\* an error-driven poll with two thresholds closed on early_alpha_pref by
\* the gap between them: freq has reached C[0], max_possible has reached
\* C[0] but not C[1], and validators are outstanding
ErrDrivenPredicateWitness ==
    /\ Len(C) = 2
    /\ ReturnedTrue
    /\ ret.reason = EarlyAlphaPrefCase
    /\ remaining > 0
    /\ maxPossible >= C[1]
    /\ FreqAtLeast(C[1])
    /\ maxPossible < C[2]

\* this step counts reason r in the metrics, once, and no other reason
CountsOnly(r) ==
    \A q \in Reasons :
       CountOf(metrics', q) = CountOf(metrics, q) + (IF q = r THEN 1 ELSE 0)

\* C12 (common rules first): in both modes a Finished() call on an open
\* poll with remaining = 0 returns true with reason exhausted, and one with
\* remaining > 0 and max_possible < alpha_preference returns true with
\* reason early_fail, whatever the mode-specific rules would say; the poll
\* closes and that reason alone is counted.
CommonRulesFirst ==
    [][(FinishedStep /\ ~poll.finished) =>
          /\ remaining = 0 =>
                /\ ret' = Returned(TRUE, ExhaustedCase)
                /\ poll'.finished
                /\ CountsOnly(ExhaustedCase)
          /\ (remaining > 0 /\ maxPossible < poll.alphaPreference) =>
                /\ ret' = Returned(TRUE, EarlyFailCase)
                /\ poll'.finished
                /\ CountsOnly(EarlyFailCase)]_vars

\* an error-driven poll whose last response raised freq to C[last]: it is
\* recorded as exhausted, not as early_alpha_conf
CommonRulesFirstWitness ==
    /\ ErrDriven
    /\ ret = Returned(TRUE, ExhaustedCase)
    /\ remaining = 0
    /\ FreqAtLeast(C[Len(C)])
    /\ metrics.countExhaustedPolls = 1
    /\ metrics.countEarlyAlphaConfPolls = 0

\* the reason counters of two metrics agree
SameCounts(m, n) == \A r \in Reasons : CountOf(m, r) = CountOf(n, r)

\* C13 (single-threshold equivalence): a poll with confidences empty and a
\* poll with confidences = [alpha_confidence], seeded alike and fed the same
\* Vote/Drop calls with Finished() evaluated after each call, agree after
\* every call on what Finished() returned (so they finish at the same step),
\* on the finished flag and on the reason counted.
SingleThresholdEquivalence ==
    /\ Len(poll.confidences) = 0
    /\ twin.poll.confidences = <<poll.alphaConfidence>>
    /\ ret = twin.ret
    /\ poll.finished = twin.poll.finished
    /\ SameCounts(metrics, twin.metrics)
    /\ poll.votes = twin.poll.votes
    /\ poll.polled = twin.poll.polled

\* both polls closed on the same call with early_alpha_pref, after a vote
\* and a drop, while validators were outstanding
SingleThresholdEquivalenceWitness ==
    /\ twin.poll.confidences = <<poll.alphaConfidence>>
    /\ ret = Returned(TRUE, EarlyAlphaPrefCase)
    /\ twin.ret = Returned(TRUE, EarlyAlphaPrefCase)
    /\ metrics.countEarlyAlphaPrefPolls = 1
    /\ twin.metrics.countEarlyAlphaPrefPolls = 1
    /\ received > 0
    /\ received + remaining < BagLen(vdrs)
    /\ remaining > 0

\* C14 (replay determinism): two polls created with equal parameters and
\* equal seeded validator multisets and driven by the same Vote, Drop,
\* Finished and Result calls agree after every call on what Finished()
\* returned (so they finish at the same step), on the reason counted, and on
\* the multiset Result() returns, whatever each of them reads on the clock.
ReplayDeterminism ==
    /\ poll.alphaPreference = twin.poll.alphaPreference
    /\ poll.alphaConfidence = twin.poll.alphaConfidence
    /\ poll.confidences = twin.poll.confidences
    /\ ret = twin.ret
    /\ poll.finished = twin.poll.finished
    /\ SameCounts(metrics, twin.metrics)
    /\ Result(poll) = Result(twin.poll)
    /\ poll.polled = twin.poll.polled

\* both polls closed on early_alpha_conf, at different clock readings, and
\* went on receiving the same votes
ReplayDeterminismWitness ==
    /\ twin.ret = Returned(TRUE, NotFinishedCase)
    /\ metrics.countEarlyAlphaConfPolls = 1
    /\ twin.metrics.countEarlyAlphaConfPolls = 1
    /\ metrics.durEarlyAlphaConfPolls # twin.metrics.durEarlyAlphaConfPolls
    /\ DOMAIN Result(twin.poll) = IDs
    /\ BagLen(twin.poll.polled) > 0

\* C15 (empty tally): with parameters that satisfy the constraints, in both
\* modes, a Finished() call that closes a poll whose votes multiset is empty
\* returns reason exhausted or early_fail and counts neither
\* early_alpha_pref nor early_alpha_conf; when neither of the two common
\* rules applies it returns false.
EmptyTally ==
    [][(FinishedStep /\ ~poll.finished /\ received = 0) =>
          /\ ret'.finished => ret'.reason \in {ExhaustedCase, EarlyFailCase}
          /\ metrics'.countEarlyAlphaPrefPolls = metrics.countEarlyAlphaPrefPolls
          /\ metrics'.countEarlyAlphaConfPolls = metrics.countEarlyAlphaConfPolls
          /\ (remaining > 0 /\ maxPossible >= poll.alphaPreference) =>
                ret' = Returned(FALSE, NotFinishedCase)]_vars

\* an error-driven poll that lost validators to drops before any vote and
\* closed on early_fail, with validators outstanding and below C[0]
EmptyTallyWitness ==
    /\ ErrDriven
    /\ received = 0
    /\ remaining > 0
    /\ remaining < BagLen(vdrs)
    /\ ret = Returned(TRUE, EarlyFailCase)
    /\ metrics.countEarlyFailPolls = 1

\* the validators still in outstanding
Outstanding == {vdr \in NodeIDs : Count(poll.polled, vdr) > 0}

\* the poll p after one Drop(vdr) call for every vdr of S
RECURSIVE DropEach(_, _)
DropEach(p, S) ==
    IF S = {} THEN p
    ELSE LET vdr == CHOOSE v \in S : TRUE
         IN  DropEach(Drop(p, vdr), S \ {vdr})

\* C16 (cancellation by drops): from every state of a poll that has not
\* finished, in both modes and whatever the votes received, one Drop call
\* for every validator still outstanding leaves the poll open with nothing
\* outstanding and its votes untouched, and the next Finished() call then
\* returns true, closes the poll and counts exhausted; along the way each
\* Drop on the open poll removes its validator and closes nothing.
CancellationByDrops ==
    /\ [](~poll.finished =>
            LET dropped == DropEach(poll, Outstanding)
            IN  /\ BagLen(dropped.polled) = 0
                /\ dropped.votes = poll.votes
                /\ ~dropped.finished
                /\ \A now \in Clock :
                      LET r == finishedAndReason(dropped, metrics, now)
                      IN  /\ r.finished
                          /\ r.reason = ExhaustedCase
                          /\ r.poll.finished
                          /\ r.metrics.countExhaustedPolls
                                = metrics.countExhaustedPolls + 1)
    /\ [][/\ \A vdr \in NodeIDs :
                (DropCall(vdr) /\ ~poll.finished) =>
                   /\ Count(poll'.polled, vdr) = 0
                   /\ ~poll'.finished
                   /\ poll'.votes = poll.votes
          /\ (FinishedStep /\ ~poll.finished /\ remaining = 0) =>
                /\ ret' = Returned(TRUE, ExhaustedCase)
                /\ metrics'.countExhaustedPolls = 1]_vars

\* an error-driven poll that had received votes, still short of
\* alpha_preference, with two or more validators outstanding: they were
\* all dropped and Finished() closed the poll as exhausted
CancellationByDropsWitness ==
    /\ ErrDriven
    /\ ret = Returned(TRUE, ExhaustedCase)
    /\ received > 0
    /\ ~FreqAtLeast(poll.alphaPreference)
    /\ Cardinality({vdr \in NodeIDs : Count(vdrs, vdr) > 0}) = 3
    /\ received = Count(vdrs, "v3")

DurOf(m, reason) ==
    CASE reason = ExhaustedCase -> m.durExhaustedPolls
      [] reason = EarlyFailCase -> m.durEarlyFailPolls
      [] reason = EarlyAlphaPrefCase -> m.durEarlyAlphaPrefPolls
      [] reason = EarlyAlphaConfCase -> m.durEarlyAlphaConfPolls

\* C17 (metric update on termination): the Finished() call that closes a
\* poll, returning reason r when the clock reads now, raises poll_count[r]
\* by exactly 1 and poll_duration[r] by now - start of that poll, on top of
\* what the gauge held before, and leaves the counter and the gauge of the
\* three other reasons as they were.
MetricUpdate ==
    [][\A i \in Polls : \A now \in ClockOf(i) :
          (/\ ~Poll(i).finished
           /\ Poll(i)'.finished
           /\ InterleavedFinished(i, now)) =>
             LET r == finishedAndReason(Poll(i), metrics, now).reason
             IN  /\ r \in Reasons
                 /\ \A q \in Reasons :
                       /\ CountOf(metrics', q)
                             = CountOf(metrics, q) + (IF q = r THEN 1 ELSE 0)
                       /\ DurOf(metrics', q)
                             = DurOf(metrics, q)
                                 + (IF q = r THEN now - Poll(i).start ELSE 0)]_vars

\* both polls of the factory closed as exhausted, each after some time: the
\* gauge holds the sum of the two durations
MetricUpdateWitness ==
    /\ metrics.countExhaustedPolls = 2
    /\ twin.alone[1].metrics.durExhaustedPolls > 0
    /\ twin.alone[2].metrics.durExhaustedPolls > 0
    /\ metrics.durExhaustedPolls
          = twin.alone[1].metrics.durExhaustedPolls
              + twin.alone[2].metrics.durExhaustedPolls

\* errors.Is(err, target): target is in the chain err wraps
Wraps(err, target) == \E i \in DOMAIN err : err[i] = target

\* this step is a call of NewEarlyTermNoTraversalFactory: it leaves the poll
FactoryStep == poll' = poll /\ DoFactory

\* C18 (factory construction fails only on metric registration): a
\* NewEarlyTermNoTraversalFactory call returns no factory and an error that
\* wraps errPollCountVectorMetrics when the registry rejects poll_count, no
\* factory and an error that wraps errPollDurationVectorMetrics when it
\* accepts poll_count and rejects poll_duration, and a factory holding the
\* parameters as given, with no error, when it accepts both, whatever the
\* parameters; every New call on a factory that makes a poll other than the
\* last one returns an open poll seeded with the bag given, started at the
\* time of the call and holding the factory's parameters.
FactoryConstruction ==
    /\ [](built.factory # Nil => built.err = Nil)
    /\ [][/\ FactoryStep =>
                /\ "poll_count" \in reg =>
                      /\ built'.factory = Nil
                      /\ Wraps(built'.err, errPollCountVectorMetrics)
                /\ ("poll_count" \notin reg /\ "poll_duration" \in reg) =>
                      /\ built'.factory = Nil
                      /\ Wraps(built'.err, errPollDurationVectorMetrics)
                /\ (reg \cap CollectorNames = {}) =>
                      /\ built'.err = Nil
                      /\ Len(built'.factory) = 1
                      /\ TotalCount(metrics') = 0
                      /\ \A alphaPreference \in 0..MaxAlpha,
                            alphaConfidence \in 0..MaxAlpha,
                            alphaConfidences \in AscendingLists :
                            FactoryCall(alphaPreference, alphaConfidence,
                                        alphaConfidences) =>
                               /\ built'.factory[1].alphaPreference = alphaPreference
                               /\ built'.factory[1].alphaConfidence = alphaConfidence
                               /\ built'.factory[1].alphaConfidences = alphaConfidences
          /\ poll' # poll =>
                \A bagOfVdrs \in SmallSeeds, now \in 0..MaxElapsed :
                   NewCall(bagOfVdrs, now) =>
                      /\ poll'.polled = bagOfVdrs
                      /\ poll'.votes = EmptyBag
                      /\ ~poll'.finished
                      /\ poll'.start = now
                      /\ poll'.alphaPreference = built.factory[1].alphaPreference
                      /\ poll'.alphaConfidence = built.factory[1].alphaConfidence
                      /\ poll'.confidences = built.factory[1].alphaConfidences]_vars

\* poll_count was registered by the call and poll_duration was rejected: no
\* factory, and the error wraps errPollDurationVectorMetrics
FactoryConstructionWitness ==
    /\ built.factory = Nil
    /\ Wraps(built.err, errPollDurationVectorMetrics)
    /\ reg = CollectorNames
    /\ BagLen(poll.polled) = 0

\* C19 (independence of polls under interleaving): two polls made by one
\* factory from separate validator bags, under every interleaving of their
\* owners' calls: each poll has at all times the votes, outstanding and
\* finished flag of a copy that receives the same calls alone on metrics of
\* its own, a Finished() call on it returns at any time what it returns on
\* that copy (so the poll finishes at the same step with the same reason),
\* a call that changes one poll leaves the other as it was, and in the
\* shared metrics each reason counter is the number of polls that
\* terminated with that reason (each gauge the sum of their durations).
PollIndependence ==
    /\ [](/\ \A i \in Polls :
                /\ Poll(i) = twin.alone[i].poll
                /\ \A now \in ClockOf(i) :
                      LET r == finishedAndReason(Poll(i), metrics, now)
                          a == finishedAndReason(twin.alone[i].poll,
                                                 twin.alone[i].metrics, now)
                      IN  /\ r.finished = a.finished
                          /\ r.reason = a.reason
                          /\ r.poll = a.poll
          /\ \A r \in Reasons :
                /\ CountOf(metrics, r)
                      = Cardinality({i \in Polls :
                                       CountOf(twin.alone[i].metrics, r) = 1})
                /\ DurOf(metrics, r)
                      = DurOf(twin.alone[1].metrics, r)
                          + DurOf(twin.alone[2].metrics, r))
    /\ [][\A i \in Polls : Poll(i)' # Poll(i) => Poll(3 - i)' = Poll(3 - i)]_vars

\* the first poll closed on early_alpha_conf with a validator outstanding
\* and the second, which received a vote, as exhausted: one count each
PollIndependenceWitness ==
    /\ poll.finished
    /\ twin.poll.finished
    /\ metrics.countEarlyAlphaConfPolls = 1
    /\ metrics.countExhaustedPolls = 1
    /\ twin.alone[2].metrics.countExhaustedPolls = 1
    /\ BagLen(twin.poll.votes) > 0
    /\ remaining > 0

\* C20 (read-only observers): Result() returns a multiset equal to the
\* votes tally, count by count, and changes neither the poll nor the
\* metrics; a Finished() call never changes votes or outstanding, and one
\* that returns false leaves the whole poll (no latch) and the metrics as
\* they were.
ReadOnlyObservers ==
    /\ [](/\ \A id \in IDs : Count(Result(poll), id) = Count(poll.votes, id)
          /\ BagLen(Result(poll)) = received)
    /\ [][/\ DoResult => (poll' = poll /\ metrics' = metrics)
          /\ FinishedStep =>
                /\ poll'.votes = poll.votes
                /\ poll'.polled = poll.polled
                /\ ~ret'.finished =>
                      /\ poll' = poll
                      /\ ~poll'.finished
                      /\ metrics' = metrics]_vars

\* an error-driven poll with votes received on which Finished() returned
\* false: still open, nothing counted
ReadOnlyObserversWitness ==
    /\ ErrDriven
    /\ ReturnedFalse
    /\ ~poll.finished
    /\ TotalCount(metrics) = 0
    /\ received > 0
    /\ remaining > 0
    /\ remaining < BagLen(vdrs) - received

\* C21 (soundness of early termination, single-threshold mode): when a
\* Finished() call closes a poll with confidences empty, then, on the poll
\* as the call leaves it: with early_fail, votes.count(x) + outstanding.len()
\* < alpha_preference for every id x; with early_alpha_pref, some id has
\* count >= alpha_preference and votes.count(x) + outstanding.len() <
\* alpha_confidence for every id x; with early_alpha_conf, some id has count
\* >= alpha_confidence.
EarlyTerminationSound ==
    [][(FinishedStep /\ ~poll.finished /\ poll'.finished /\ SingleThreshold) =>
          LET outstanding == BagLen(poll'.polled)
          IN  /\ ret'.reason = EarlyFailCase =>
                    \A x \in IDs :
                       Count(poll'.votes, x) + outstanding < poll'.alphaPreference
              /\ ret'.reason = EarlyAlphaPrefCase =>
                    /\ \E x \in IDs : Count(poll'.votes, x) >= poll'.alphaPreference
                    /\ \A x \in IDs :
                          Count(poll'.votes, x) + outstanding < poll'.alphaConfidence
              /\ ret'.reason = EarlyAlphaConfCase =>
                    \E x \in IDs : Count(poll'.votes, x) >= poll'.alphaConfidence]_vars

\* a single-threshold poll closed on early_alpha_pref after a vote and a
\* drop, with a validator still outstanding that could not lift any id to
\* alpha_confidence
EarlyTerminationSoundWitness ==
    /\ SingleThreshold
    /\ ret = Returned(TRUE, EarlyAlphaPrefCase)
    /\ received > 0
    /\ remaining > 0
    /\ received + remaining < BagLen(vdrs)
    /\ FreqAtLeast(poll.alphaPreference)
    /\ maxPossible < poll.alphaConfidence

\* the termination predicate of poll p, the finished latch ignored: what
\* Finished() returns on p with the flag cleared
TerminationPredicate(p) ==
    finishedAndReason([p EXCEPT !.finished = FALSE],
                      earlyTermNoTraversalMetrics, p.start).finished

\* C22 (monotone termination predicate): in both modes, under parameters
\* that satisfy the constraints and for every seeded validator bag, if the
\* termination predicate, the finished latch ignored, is true in a state of
\* the poll, it is true in the state after any further Vote or Drop; so a
\* Finished() call first made several mutations after the predicate became
\* true, on the poll still open, returns true and closes the poll.
MonotoneTermination ==
    [][(poll' # poll /\ TerminationPredicate(poll)) =>
          /\ TerminationPredicate(poll')
          /\ (~poll.finished /\ FinishedStep) =>
                (ret'.finished /\ poll'.finished)]_vars

\* Finished() has never been called on a poll that has received votes for
\* both ids, each id enough of them for early_alpha_conf: the predicate
\* was true after the first vote and is true after the second, the poll is
\* open and a validator is outstanding
MonotoneTerminationWitness ==
    /\ ret = NotCalled
    /\ ~poll.finished
    /\ TerminationPredicate(poll)
    /\ \A id \in IDs : Count(poll.votes, id) >= poll.alphaConfidence
    /\ remaining > 0

\* C23 (accepted tracker, non-validator no-op): a SetLastAccepted(nodeID,
\* blockID, height) call made while nodeID is not in the validator set,
\* whether never added or added and then removed, leaves the tracker as it
\* was, so LastAccepted returns for every node the answer it returned before
\* the call.
NonValidatorNoOp ==
    [][\A nodeID \in Trackees :
          nodeID \notin accepted.validators =>
             \A blockID \in IDs, height \in Heights :
                SetLastAcceptedCall(nodeID, blockID, height) =>
                   /\ accepted' = accepted
                   /\ \A n \in Trackees :
                         LastAccepted(accepted', n) = LastAccepted(accepted, n)]_vars

\* a node was added, had a block recorded, was removed, and SetLastAccepted
\* was then called for it: the tracker holds no block for it, and the other
\* node, never added, has none either
NonValidatorNoOpWitness ==
    /\ Len(calls) = 4
    /\ calls[1].op = "OnValidatorAdded"
    /\ calls[2].op = "SetLastAccepted"
    /\ calls[3].op = "OnValidatorRemoved"
    /\ calls[4].op = "SetLastAccepted"
    /\ \A i \in 1..4 : calls[i].nodeID = "v1"
    /\ ~LastAccepted(accepted, "v1").ok
    /\ accepted.validators = {}

\* call i of the log is the call op for nodeID
IsCall(i, op, nodeID) == calls[i].op = op /\ calls[i].nodeID = nodeID

\* nodeID was a validator when call i was made: it had been added, and not
\* removed since
ValidatorAt(i, nodeID) ==
    \E j \in 1..(i - 1) :
       /\ IsCall(j, "OnValidatorAdded", nodeID)
       /\ \A k \in (j + 1)..(i - 1) : ~IsCall(k, "OnValidatorRemoved", nodeID)

\* the SetLastAccepted calls for nodeID made while it was a validator and
\* after its most recent removal
Effective(nodeID) ==
    {i \in 1..Len(calls) :
        /\ IsCall(i, "SetLastAccepted", nodeID)
        /\ ValidatorAt(i, nodeID)
        /\ \A k \in (i + 1)..Len(calls) : ~IsCall(k, "OnValidatorRemoved", nodeID)}

\* C24 (accepted tracker, latest value): after any sequence of
\* OnValidatorAdded, OnValidatorRemoved and SetLastAccepted calls,
\* LastAccepted(nodeID) returns (blockID, height, true) of the most recent
\* SetLastAccepted call for nodeID that was made while nodeID was a validator
\* and after its most recent removal, and returns false when there is no
\* such call, as for a node removed and added again with no SetLastAccepted
\* since.
LatestValue ==
    \A nodeID \in Trackees :
       LET got == LastAccepted(accepted, nodeID)
           S == Effective(nodeID)
           last == CHOOSE i \in S : \A j \in S : j <= i
       IN  IF S = {}
           THEN ~got.ok
           ELSE got = [blockID |-> calls[last].blockID,
                       height |-> calls[last].height, ok |-> TRUE]

\* a node was added, had a block recorded, was removed and added again: it
\* is a validator and LastAccepted returns false for it
LatestValueWitness ==
    /\ Len(calls) = 4
    /\ calls[1].op = "OnValidatorAdded"
    /\ calls[2].op = "SetLastAccepted"
    /\ calls[3].op = "OnValidatorRemoved"
    /\ calls[4].op = "OnValidatorAdded"
    /\ \A i \in 1..4 : calls[i].nodeID = "v2"
    /\ "v2" \in accepted.validators
    /\ ~LastAccepted(accepted, "v2").ok

\* the goroutines inside a writing method, and those inside LastAccepted
Writers ==
    {g \in Goroutines : goroutines[g].pc \notin {"idle", "frontier[nodeID]"}}
Readers == {g \in Goroutines : goroutines[g].pc = "frontier[nodeID]"}

\* C28 (accepted tracker invariant under interleaving): whatever the
\* interleaving of concurrent OnValidatorAdded, OnValidatorRemoved,
\* SetLastAccepted and LastAccepted calls, the lock makes each of them
\* atomic (one goroutine at most is inside a writing method, and then none
\* is inside LastAccepted), and in every state in which no writing call is
\* under way, hence in every state a LastAccepted call reads, every node that
\* has a frontier entry is in the validator set: a removed validator never
\* has a last-accepted entry, from the return of OnValidatorRemoved on.
FrontierWithinValidators ==
    /\ [](/\ Cardinality(Writers) <= 1
          /\ Writers # {} => Readers = {}
          /\ accepted.lock.writer <=> Writers # {}
          /\ accepted.lock.readers = Cardinality(Readers)
          /\ Writers = {} =>
                /\ DOMAIN accepted.frontier \subseteq accepted.validators
                /\ \A nodeID \in Trackees \ accepted.validators :
                      ~LastAccepted(accepted, nodeID).ok)
    /\ [][\A g \in Goroutines :
             DeleteStep(g) =>
                /\ goroutines[g].nodeID \notin accepted'.validators
                /\ ~LastAccepted(accepted', goroutines[g].nodeID).ok]_vars

\* one goroutine is inside LastAccepted for a node that was removed after a
\* block had been recorded for it, while the other node holds a block: the
\* read finds no entry
FrontierWithinValidatorsWitness ==
    /\ accepted.validators = {"v2"}
    /\ DOMAIN accepted.frontier = {"v2"}
    /\ \E g \in Goroutines :
          /\ goroutines[g].pc = "frontier[nodeID]"
          /\ goroutines[g].nodeID = "v1"
          /\ ~LastAccepted(accepted, "v1").ok

\* some confidence threshold lies above freq and within max_possible: an
\* outstanding response could still lift the leading count across it
ThresholdReachable ==
    \E j \in 1..Len(C) : ~FreqAtLeast(C[j]) /\ C[j] <= maxPossible

\* C25 (error-driven band characterisation): with confidences C strictly
\* ascending and C[0] >= alpha_preference, a Finished() call on an open poll
\* with remaining > 0, max_possible >= alpha_preference and freq >=
\* alpha_preference returns true iff no threshold C[j] satisfies freq <
\* C[j] <= max_possible, and never returns early_alpha_pref while such a
\* threshold exists; the poll closes iff the call returns true.
ErrDrivenBand ==
    [][(/\ FinishedStep
        /\ ~poll.finished
        /\ ErrDriven
        /\ remaining > 0
        /\ maxPossible >= poll.alphaPreference
        /\ FreqAtLeast(poll.alphaPreference)) =>
          /\ ret'.finished <=> ~ThresholdReachable
          /\ ThresholdReachable => ret'.reason # EarlyAlphaPrefCase
          /\ poll'.finished <=> ret'.finished]_vars

\* an error-driven poll with two thresholds on which Finished() returned
\* false: freq has reached alpha_preference but not C[0], which the
\* outstanding validators can still reach, while C[1] is out of reach
ErrDrivenBandWitness ==
    /\ Len(C) = 2
    /\ ReturnedFalse
    /\ ~poll.finished
    /\ remaining > 0
    /\ FreqAtLeast(poll.alphaPreference)
    /\ ~FreqAtLeast(C[1])
    /\ C[1] <= maxPossible
    /\ maxPossible < C[2]

\* the vote ids another poll may name
OtherIDs == IDs \cup {"C"}

\* the tallies over OtherIDs that hold n votes with f the largest count
TalliesLike(n, f) ==
    {t \in {[id \in {i \in OtherIDs : c[i] > 0} |-> c[id]] :
               c \in [OtherIDs -> 0..f]} :
        BagLen(t) = n /\ ModeFreq(t) = f}

\* the polls that agree with p on the parameters, on outstanding.len(), on
\* votes.len() and on the largest count of votes: their validators still
\* outstanding are those of p or one validator sampled n times, and their
\* tallies name any ids
Lookalikes(p) ==
    LET n == BagLen(p.polled)
    IN  {[p EXCEPT !.votes = t, !.polled = o] :
            t \in TalliesLike(BagLen(p.votes), ModeFreq(p.votes)),
            o \in {p.polled, AddCount(EmptyBag, "v3", n)}}

\* C26 (independence from the mode tie-break): what Finished() returns on an
\* open poll, and the reason it records, depend only on outstanding.len(),
\* votes.len() and the largest count in votes: every poll with the same
\* parameters that agrees on these three numbers gets the same outcome,
\* whichever ids its tally names, and whichever of several most frequent
\* ids Mode() returns, the count it returns with it being the same.
TieBreakIndependence ==
    /\ \A m \in Mode(poll.votes) : m.freq = ModeFreq(poll.votes)
    /\ ~poll.finished =>
          \A q \in Lookalikes(poll) :
             LET r == finishedAndReason(poll, metrics, poll.start)
                 s == finishedAndReason(q, metrics, poll.start)
             IN  /\ r.finished = s.finished
                 /\ r.reason = s.reason
                 /\ r.metrics = s.metrics
                 /\ r.poll.finished = s.poll.finished

\* an open poll whose tally is tied between the two ids, with a validator
\* outstanding, on which Finished() has returned false
TieBreakIndependenceWitness ==
    /\ ReturnedFalse
    /\ ~poll.finished
    /\ Cardinality(Mode(poll.votes)) = 2
    /\ remaining > 0
    /\ Cardinality(Lookalikes(poll)) > 2

\* ------------------------------------------------------------------------
\* One poll and the engine that owns it: each response of the network
\* becomes a Vote or a Drop, Finished() is evaluated after each of them, and
\* on the first true the engine takes the Result() and sends the poll
\* nothing more. Every validator still outstanding responds in the end.
\* ------------------------------------------------------------------------
\* the bags the poll is seeded with: up to three validators, each sampled
\* once
LiveSeeds == {b \in SeededBags : Count(b, "v1") <= 1}

LiveInit ==
    /\ Init
    /\ vdrs \in LiveSeeds

\* a response has been applied, giving poll p: Finished() is evaluated
Responded(p, now) ==
    LET e == Evaluated(p, metrics, now)
    IN  /\ poll' = e.poll
        /\ metrics' = e.metrics
        /\ ret' = e.ret
        /\ UNCHANGED <<vdrs, twin, reg, built, accepted, calls, goroutines>>

LiveVote(vdr, vote, now) ==
    /\ ~ReturnedTrue
    /\ Responded(Vote(poll, vdr, vote), now)

LiveDrop(vdr, now) ==
    /\ ~ReturnedTrue
    /\ Responded(Drop(poll, vdr), now)

DoLiveVote == \E vdr \in NodeIDs, vote \in IDs, now \in Clock : LiveVote(vdr, vote, now)

DoLiveDrop == \E vdr \in NodeIDs, now \in Clock : LiveDrop(vdr, now)

DoLiveResult ==
    /\ ReturnedTrue
    /\ Result(poll) = poll.votes
    /\ UNCHANGED vars

LiveNext == DoLiveVote \/ DoLiveDrop \/ DoLiveResult

\* the response of a validator that is outstanding
Respond(vdr) ==
    /\ Count(poll.polled, vdr) > 0
    /\ \E now \in Clock :
          \/ LiveDrop(vdr, now)
          \/ \E vote \in IDs : LiveVote(vdr, vote, now)

\* as long as the engine waits for validators, one of them responds; each
\* response takes its validator out of outstanding for good, so that every
\* validator the engine still waits for responds in the end
SpecLive ==
    /\ LiveInit
    /\ [][LiveNext]_vars
    /\ WF_vars(\E vdr \in NodeIDs : Respond(vdr))

\* C27 (eventual termination): in both modes and for every valid parameter
\* set, if every validator of the seeded bag eventually receives a Vote or
\* a Drop and Finished() is evaluated after each of these calls, then, when
\* the seeded bag is not empty (so that a call is made at all), Finished()
\* eventually returns true; it has returned true at the latest in the step
\* that empties outstanding, and whenever it has been evaluated with
\* nothing outstanding.
EventualTermination ==
    /\ (BagLen(vdrs) > 0) ~> ReturnedTrue
    /\ []((ret.called /\ remaining = 0) => ReturnedTrue)
    /\ [][(remaining > 0 /\ BagLen(poll'.polled) = 0) => ReturnedTrue']_vars

\* no early rule ever applied: votes came for both ids, a validator was
\* dropped, and Finished() returned true only on the response that emptied
\* outstanding
EventualTerminationWitness ==
    /\ ret = Returned(TRUE, ExhaustedCase)
    /\ DOMAIN poll.votes = IDs
    /\ received < BagLen(vdrs)
    /\ ~FreqAtLeast(poll.alphaPreference)

====
